---- MODULE Spec2Model ----
(***************************************************************************)
(* Paper_Agent: the guaranteed-count download orchestrator                 *)
(* (core/smart_download_manager.py), the provider router                   *)
(* (clients/download_client.py) and the sliding-window rate limiter        *)
(* (utils/utils.py).                                                       *)
(*                                                                         *)
(* Scores are kept in hundredths of a point (9.0 is 900), so that the      *)
(* citation bonus citation_count / 50 is the integer citation_count * 2.   *)
(* A file path is <<extension, paper_index, safe title>>, as the           *)
(* orchestrator builds the name from paper_index and the title.            *)
(***************************************************************************)
EXTENDS Integers, Sequences, FiniteSets, TLC

VARIABLES
    papers,      \* the pool: position in the caller's list |-> Paper object
    env,         \* what each provider chain answers for each paper
    inst,        \* SmartDownloadManager.within_institutional_ip
    target,      \* target_count
    files,       \* the pdf folder: path |-> size in bytes
    pc,          \* position inside ensure_target_downloads
    phase,       \* 1 = priority phase, 2 = supplementation phase
    queue,       \* priority_papers / scored_papers of the running phase
    cur,         \* position of the loop in queue
    succ,        \* successful_downloads of the running phase
    prio,        \* priority_downloads kept by ensure_target_downloads
    ok,          \* the success flag travelling up from download_paper
    saved,       \* original_journal_type of the running attempt
    invoked,     \* provider chains called during the running attempt
    attempts,    \* how many attempts each paper has had in this call
    result,      \* the list ensure_target_downloads returned
    pool0,       \* the pool as it was on entry
    now,         \* the clock read by time.time()
    calls,       \* RateLimiter.calls
    ceiling,     \* RateLimiter.calls_per_minute
    granted,     \* every timestamp wait_if_needed has recorded so far
    op,          \* what the wrapped function does at each invocation
    attempt,     \* retry_on_failure: the loop variable
    invocations, \* how many times the wrapped function has been invoked
    sleeps,      \* the backoff sleeps made so far, in seconds
    last_exception, \* retry_on_failure: last_exception
    outcome,     \* what the wrapper gave its caller
    material_id, \* validate_material_id: the argument, a string of characters
    validated,   \* validate_material_id: what the call gave
    slept,       \* the loop of a phase has slept since its last attempt
    call,        \* a provider call: its arguments and what the network answers
    log          \* the requests and file operations made so far, in order

vars == <<papers, env, inst, target, files, pc, phase, queue, cur, succ, prio,
          ok, saved, invoked, attempts, result, pool0, now, calls, ceiling,
          granted, op, attempt, invocations, sleeps, last_exception, outcome,
          material_id, validated, slept, call, log>>

dlVars == <<papers, env, inst, target, files, pc, phase, queue, cur, succ, prio,
            ok, saved, invoked, attempts, result, pool0, slept>>

rlVars == <<now, calls, ceiling, granted>>

rtVars == <<op, attempt, invocations, sleeps, last_exception, outcome>>

vdVars == <<material_id, validated>>

chVars == <<call, log>>

----------------------------------------------------------------------------
(* Bounds *)

MaxPool == 3

MaxTarget == 3

\* phrases in an error message handed to the classifier
MaxMsgLen == 3

MaxCalls == 5

\* coroutines sharing one RateLimiter
MaxCallers == 2

MaxClock == 130

MaxCeiling == 2

----------------------------------------------------------------------------
(* models.py *)

PENDING == "pending"

DOWNLOADING == "downloading"

DOWNLOADED == "downloaded"

FAILED == "failed"

SKIPPED == "skipped"

ELSEVIER == "elsevier"

NON_ELSEVIER == "non_elsevier"

UNKNOWN == "unknown"

----------------------------------------------------------------------------
(* utils.is_elsevier_doi: a DOI is represented by its publisher prefix *)

ElsevierPrefixes ==
    {"10.1016/", "10.1006/", "10.1053/", "10.1054/", "10.1078/", "10.1529/"}

NonElsevierPrefixes ==
    {"10.1007/", "10.1021/", "10.1002/", "10.1063/", "10.1088/", "10.1103/",
     "10.1038/", "10.1126/", "10.3390/", "10.1039/"}

is_elsevier_doi(doi) ==
    IF doi = "" THEN FALSE
    ELSE IF doi \in NonElsevierPrefixes THEN FALSE
    ELSE IF doi \in ElsevierPrefixes THEN TRUE
    ELSE FALSE

\* search_client.py builds every Paper with this journal_type
JournalTypeOf(doi) == IF is_elsevier_doi(doi) THEN ELSEVIER ELSE NON_ELSEVIER

----------------------------------------------------------------------------
(* The candidates a pool is drawn from.  els / anna say what the Elsevier  *)
(* chain and the Anna Archive chain answer for the paper:                   *)
(*   els:  "pdf" (binary strategy writes the .pdf), "xml" (binary strategy *)
(*         fails, the XML fallback writes the .txt), "fail", "raise"       *)
(*   anna: "pdf" or "fail"                                                 *)
(* bytes is the size of whatever the answering strategy returns.           *)

PaperA == [doi |-> "10.1016/", year |-> 2015, citation_count |-> 0,
           relevance_score |-> 600, els |-> "pdf", anna |-> "fail", bytes |-> 2048]

PaperB == [doi |-> "10.1021/", year |-> 2020, citation_count |-> 0,
           relevance_score |-> 700, els |-> "fail", anna |-> "pdf", bytes |-> 2048]

PaperC == [doi |-> "10.1016/", year |-> 2015, citation_count |-> 0,
           relevance_score |-> 400, els |-> "fail", anna |-> "fail", bytes |-> 0]

PaperD == [doi |-> "10.1021/", year |-> 2020, citation_count |-> 0,
           relevance_score |-> 400, els |-> "fail", anna |-> "pdf", bytes |-> 2048]

PaperX == [doi |-> "10.1016/", year |-> 2019, citation_count |-> 120,
           relevance_score |-> 500, els |-> "xml", anna |-> "fail", bytes |-> 600]

PaperY == [doi |-> "10.1053/", year |-> 2012, citation_count |-> 25,
           relevance_score |-> 500, els |-> "fail", anna |-> "pdf", bytes |-> 4096]

PaperR == [doi |-> "10.1016/", year |-> 2021, citation_count |-> 50,
           relevance_score |-> 500, els |-> "raise", anna |-> "pdf", bytes |-> 2048]

PaperF == [doi |-> "10.9999/", year |-> 2012, citation_count |-> 50,
           relevance_score |-> 600, els |-> "fail", anna |-> "fail", bytes |-> 0]

PaperZ == [doi |-> "", year |-> 2019, citation_count |-> 0,
           relevance_score |-> 700, els |-> "fail", anna |-> "fail", bytes |-> 0]

Kinds == {PaperA, PaperB, PaperC, PaperD, PaperX, PaperY, PaperR, PaperF, PaperZ}

ScenarioPool == <<PaperA, PaperB, PaperC, PaperD>>

Pools == UNION {[1..n -> Kinds] : n \in 0..MaxPool} \cup {ScenarioPool}

\* models.Paper as search_client.py creates it and gemini_client.select_papers
\* numbers it (paper_index = position in the selected list)
MkPaper(k, i) ==
    [doi |-> k.doi, year |-> k.year, citation_count |-> k.citation_count,
     relevance_score |-> k.relevance_score, priority_score |-> 0,
     paper_index |-> i, title |-> <<ToString(i)>>, journal_type |-> JournalTypeOf(k.doi),
     download_status |-> PENDING, pdf_filename |-> <<>>, pdf_size |-> 0]

MkEnv(k) == [els |-> k.els, anna |-> k.anna, bytes |-> k.bytes]

----------------------------------------------------------------------------
(* SmartDownloadManager._calculate_priority_scores *)

\* a minimum that is its first argument: the cap is never applied
Min_First(a, b) == a

Min(a, b) == IF a <= b THEN a ELSE b

\* a score that also looks at the download status
Score_StatusAware(p) ==
    p.relevance_score
    + (IF p.journal_type = ELSEVIER
         THEN 300 + (IF p.year >= 2018 THEN 100 ELSE 0)
         ELSE 100 + (IF p.year <= 2019 THEN 100 ELSE 0)
                  + (IF 2010 <= p.year /\ p.year <= 2018 THEN 50 ELSE 0))
    + Min(p.citation_count * 2, 200)
    - (IF p.download_status = FAILED THEN 50 ELSE 0)

Score(p) ==
    p.relevance_score
    + (IF p.journal_type = ELSEVIER
         THEN 300 + (IF p.year >= 2018 THEN 100 ELSE 0)
         ELSE 100 + (IF p.year <= 2019 THEN 100 ELSE 0)
                  + (IF 2010 <= p.year /\ p.year <= 2018 THEN 50 ELSE 0))
    + Min(p.citation_count * 2, 200)

\* paper.priority_score = score, for the papers of the list only
Rescore(ps, ids) ==
    [i \in DOMAIN ps |->
        IF \E j \in 1..Len(ids) : ids[j] = i
          THEN [ps[i] EXCEPT !.priority_score = Score(ps[i])]
          ELSE ps[i]]

\* list.sort(key=priority_score, reverse=True): a stable sort, equal scores
\* keep the order of the list
\* an insertion that puts a paper before the papers of its own score
InsertByScore_TiesFirst(ps, s, x) ==
    LET after == {j \in 1..Len(s) : ps[s[j]].priority_score > ps[x].priority_score}
        n == Cardinality(after)
    IN  SubSeq(s, 1, n) \o <<x>> \o SubSeq(s, n + 1, Len(s))

InsertByScore(ps, s, x) ==
    LET after == {j \in 1..Len(s) : ps[s[j]].priority_score >= ps[x].priority_score}
        n == Cardinality(after)
    IN  SubSeq(s, 1, n) \o <<x>> \o SubSeq(s, n + 1, Len(s))

\* the sort left out: the list keeps its order
SortByScore_Unsorted(ps, ids) == ids

RECURSIVE SortByScore(_, _)
SortByScore(ps, ids) ==
    IF ids = <<>> THEN <<>>
    ELSE InsertByScore(ps, SortByScore(ps, SubSeq(ids, 1, Len(ids) - 1)), ids[Len(ids)])

\* the whole method; raised is the IndexError of scored_papers[0] in the
\* log line when the list is empty
calculate_priority_scores(ps, ids) ==
    LET scored == Rescore(ps, ids)
    IN  [papers |-> scored,
         order  |-> SortByScore(scored, ids),
         raised |-> (ids = <<>>)]

----------------------------------------------------------------------------
(* Lists of Paper objects are sequences of pool positions.  Paper is a     *)
(* dataclass: "p in lst" compares the fields.                              *)

InList(ps, i, lst) == \E j \in 1..Len(lst) : ps[lst[j]] = ps[i]

RECURSIVE FilterNotIn(_, _, _)
FilterNotIn(ps, ids, lst) ==
    IF ids = <<>> THEN <<>>
    ELSE (IF InList(ps, ids[1], lst) THEN <<>> ELSE <<ids[1]>>)
         \o FilterNotIn(ps, Tail(ids), lst)

AllIds(ps) == [i \in 1..Len(ps) |-> i]

Range(s) == {s[j] : j \in 1..Len(s)}

----------------------------------------------------------------------------
(* The pdf folder *)

\* the characters the regular expression [<>:"/\\|?*] matches
UnsafeChars == {"<", ">", ":", "\"", "/", "\\", "|", "?", "*"}

\* the characters \s matches, as far as titles carry them
Blanks == {" "}

\* re.sub(r'[...]', '_', text): every character of the class becomes "_"
ReplaceEach(text, cls) ==
    [j \in 1..Len(text) |-> IF text[j] \in cls THEN "_" ELSE text[j]]

\* re.sub(r'\s+', '_', text): every run of the class becomes one "_"
RECURSIVE ReplaceRuns(_, _)
ReplaceRuns(text, cls) ==
    IF text = <<>> THEN <<>>
    ELSE IF Head(text) \in cls
      THEN IF Tail(text) # <<>> /\ Head(Tail(text)) \in cls
             THEN ReplaceRuns(Tail(text), cls)
             ELSE <<"_">> \o ReplaceRuns(Tail(text), cls)
    ELSE <<Head(text)>> \o ReplaceRuns(Tail(text), cls)

\* text[:n]
Slice(text, n) == SubSeq(text, 1, IF Len(text) < n THEN Len(text) ELSE n)

\* text.strip(chars)
RECURSIVE StripChars(_, _)
StripChars(text, chars) ==
    IF text # <<>> /\ Head(text) \in chars THEN StripChars(Tail(text), chars)
    ELSE IF text # <<>> /\ text[Len(text)] \in chars
      THEN StripChars(SubSeq(text, 1, Len(text) - 1), chars)
    ELSE text

\* SmartDownloadManager._safe_filename
SmartDownloadManager_safe_filename(text) ==
    Slice(ReplaceRuns(ReplaceEach(text, UnsafeChars), Blanks), 50)

\* MaterialAnalysisWorkflow._safe_filename
MaterialAnalysisWorkflow_safe_filename(text) ==
    StripChars(ReplaceRuns(ReplaceEach(text, UnsafeChars), Blanks), {".", "_"})

\* f"paper_{paper.paper_index:02d}_{self._safe_filename(paper.title[:30])}.pdf"
\* as the download phases build it: <<suffix, index, safe title>>
PdfPath(p) ==
    <<"pdf", p.paper_index, SmartDownloadManager_safe_filename(Slice(p.title, 30))>>

TxtPath(p) ==
    <<"txt", p.paper_index, SmartDownloadManager_safe_filename(Slice(p.title, 30))>>

\* the same name as main._download_pdfs builds it for the rename
NewPath(p) ==
    <<"pdf", p.paper_index,
      MaterialAnalysisWorkflow_safe_filename(Slice(p.title, 30))>>

Exists(fs, path) == path \in DOMAIN fs

\* Path.rename(target): the file moves and replaces a file already at target
Rename(fs, old, new) ==
    [q \in (DOMAIN fs \ {old}) \cup {new} |-> IF q = new THEN fs[old] ELSE fs[q]]

WriteFile(fs, path, size) ==
    [q \in DOMAIN fs \cup {path} |-> IF q = path THEN size ELSE fs[q]]

\* pdf_path.stat().st_size if pdf_path.exists() else 0
StatSize(fs, path) == IF Exists(fs, path) THEN fs[path] ELSE 0

----------------------------------------------------------------------------
(* clients/download_client.py: the provider chains and the router *)

WithSuffixTxt(path) == <<"txt", path[2], path[3]>>

\* ElsevierDownloader.download_pdf under retry_on_failure: the binary
\* strategy first, then the XML fallback, which writes next to the pdf path
ElsevierChain(e, fs, path) ==
    CASE e.els = "pdf"   -> [ok |-> TRUE, size |-> e.bytes, raised |-> FALSE,
                             files |-> WriteFile(fs, path, e.bytes)]
      [] e.els = "xml"   -> [ok |-> TRUE, size |-> e.bytes, raised |-> FALSE,
                             files |-> WriteFile(fs, WithSuffixTxt(path), e.bytes)]
      [] e.els = "raise" -> [ok |-> FALSE, size |-> 0, raised |-> TRUE, files |-> fs]
      [] OTHER           -> [ok |-> FALSE, size |-> 0, raised |-> FALSE, files |-> fs]

\* AnnaArchiveDownloader.download_pdf: every exception is caught inside
AnnaChain(e, fs, path) ==
    IF e.anna = "pdf"
      THEN [ok |-> TRUE, size |-> e.bytes, raised |-> FALSE,
            files |-> WriteFile(fs, path, e.bytes)]
      ELSE [ok |-> FALSE, size |-> 0, raised |-> FALSE, files |-> fs]

\* a router that sends every prefix it does not know to the Elsevier chain
PrimaryIsElsevier_Unknown(p) == p.doi # "" /\ p.doi \notin NonElsevierPrefixes

\* the branch of download_paper that picks the primary chain
PrimaryIsElsevier(p) == is_elsevier_doi(p.doi)

\* a failure that leaves the status as it is
MarkFailed_Kept(p) == p

\* paper.download_status = DownloadStatus.FAILED
MarkFailed(p) == [p EXCEPT !.download_status = FAILED]

\* a router without the backup chain
HasBackup_Never(p) == FALSE

\* "If Elsevier failed, try Anna Archive as backup": the second test of the
\* DOI in download_paper
HasBackup(p) == is_elsevier_doi(p.doi)

Downloaded(p, path, size) ==
    [p EXCEPT !.download_status = DOWNLOADED, !.pdf_filename = path,
              !.pdf_size = size]

\* DownloadManager.download_paper
download_paper(p, e, fs, path) ==
    IF p.doi = ""
      THEN [paper |-> MarkFailed(p), files |-> fs,
            ok |-> FALSE, chains |-> <<>>]
    ELSE
      LET first == IF PrimaryIsElsevier(p) THEN "elsevier" ELSE "anna"
          r1 == IF first = "elsevier" THEN ElsevierChain(e, fs, path)
                                      ELSE AnnaChain(e, fs, path)
          r2 == AnnaChain(e, r1.files, path)
      IN  IF r1.raised
            THEN [paper |-> MarkFailed(p),
                  files |-> r1.files, ok |-> FALSE, chains |-> <<first>>]
          ELSE IF r1.ok
            THEN [paper |-> Downloaded(p, path, r1.size), files |-> r1.files,
                  ok |-> TRUE, chains |-> <<first>>]
          ELSE IF HasBackup(p)
            THEN IF r2.ok
                   THEN [paper |-> Downloaded(p, path, r2.size), files |-> r2.files,
                         ok |-> TRUE, chains |-> <<first, "anna">>]
                   ELSE [paper |-> MarkFailed(p),
                         files |-> r2.files, ok |-> FALSE,
                         chains |-> <<first, "anna">>]
          ELSE [paper |-> MarkFailed(p),
                files |-> r1.files, ok |-> FALSE, chains |-> <<first>>]

----------------------------------------------------------------------------
(* core/smart_download_manager.py *)

\* _download_single_paper, non-institutional branch: the temporary override
OverrideJournalType(p) == [p EXCEPT !.journal_type = NON_ELSEVIER]

\* the inner finally left out: the override stays
RestoreJournalType_Kept(p, original) == p

\* _download_single_paper, inner finally: paper.journal_type = original
RestoreJournalType(p, original) == [p EXCEPT !.journal_type = original]

\* _download_single_paper, outer finally
FailIfStillDownloading(p) ==
    IF p.download_status = DOWNLOADING
      THEN MarkFailed(p) ELSE p

\* the loop cut to the first target_count papers of the list
LoopLimit_FirstN(q, n) == Min(Len(q), n)

\* how many papers of the loop a phase may try: all of them
LoopLimit(q, n) == Len(q)

\* the break taken one success late
TargetReached_Late(done, n) == Len(done) > n

\* "Stop if we have enough": len(successful_downloads) >= target_count
TargetReached(done, n) == Len(done) >= n

\* _precise_selection
precise_selection(ps, all, n) ==
    IF Len(all) <= n
      THEN [papers |-> ps, selected |-> all]
    ELSE
      LET r == calculate_priority_scores(ps, all)
          selected == SubSeq(r.order, 1, n)
          skipped == [i \in DOMAIN ps |->
                        IF i \in Range(all) /\ ~InList(r.papers, i, selected)
                          THEN [r.papers[i] EXCEPT !.download_status = SKIPPED]
                          ELSE r.papers[i]]
          indexed == [i \in DOMAIN ps |->
                        IF \E j \in 1..Len(selected) : selected[j] = i
                          THEN [skipped[i] EXCEPT !.paper_index =
                                  CHOOSE j \in 1..Len(selected) : selected[j] = i]
                          ELSE skipped[i]]
      IN  [papers |-> indexed, selected |-> selected]

----------------------------------------------------------------------------
(* ensure_target_downloads as a process *)

NoFiles == [q \in {} |-> 0]

RateLimiterIdle ==
    /\ now = 0
    /\ calls = <<>>
    /\ ceiling = 1
    /\ granted = <<>>

\* no call of a retry-wrapped function is being followed
RetryIdle ==
    /\ op = <<>>
    /\ attempt = 0
    /\ invocations = 0
    /\ sleeps = <<>>
    /\ last_exception = <<"no attempts made">>
    /\ outcome = [kind |-> "none", value |-> <<>>]

\* no provider call is being followed
ChainIdle ==
    /\ call = <<>>
    /\ log = <<>>

\* no call of validate_material_id is being followed
ValidateIdle ==
    /\ material_id = <<>>
    /\ validated = [kind |-> "none", value |-> <<>>]

Init ==
    /\ \E pool \in Pools :
         /\ papers = [i \in 1..Len(pool) |-> MkPaper(pool[i], i)]
         /\ env = [i \in 1..Len(pool) |-> MkEnv(pool[i])]
         /\ attempts = [i \in 1..Len(pool) |-> 0]
    /\ pool0 = papers
    /\ inst \in BOOLEAN
    /\ target \in 1..MaxTarget
    /\ files = NoFiles
    /\ pc = "idle"
    /\ phase = 1
    /\ queue = <<>>
    /\ cur = 1
    /\ succ = <<>>
    /\ prio = <<>>
    /\ ok = FALSE
    /\ saved = UNKNOWN
    /\ invoked = <<>>
    /\ result = <<>>
    /\ slept = FALSE
    /\ RateLimiterIdle
    /\ RetryIdle
    /\ ValidateIdle
    /\ ChainIdle

\* ensure_target_downloads is called; _priority_download_phase scores and
\* sorts the whole pool
Call ==
    /\ pc = "idle"
    /\ LET r == calculate_priority_scores(papers, AllIds(papers))
       IN  /\ papers' = r.papers
           /\ queue' = r.order
           /\ pc' = IF r.raised THEN "raised" ELSE "loop"
    /\ phase' = 1
    /\ cur' = 1
    /\ succ' = <<>>
    /\ UNCHANGED <<env, inst, target, files, prio, ok, saved, invoked, attempts,
                   result, pool0, slept, rlVars, rtVars, vdVars, chVars>>

\* head of the loop of either phase: the next paper is set to DOWNLOADING
\* and its pdf_path is built
BeginAttempt ==
    /\ pc = "loop"
    /\ cur <= LoopLimit(queue, target)
    /\ LET i == queue[cur]
       IN  /\ papers' = [papers EXCEPT ![i].download_status = DOWNLOADING]
           /\ attempts' = [attempts EXCEPT ![i] = @ + 1]
    /\ invoked' = <<>>
    /\ ok' = FALSE
    /\ slept' = FALSE
    /\ pc' = "single"
    /\ UNCHANGED <<env, inst, target, files, phase, queue, cur, succ, prio,
                   saved, result, pool0, rlVars, rtVars, vdVars, chVars>>

\* _download_single_paper up to the call of download_paper
SingleBegin ==
    /\ pc = "single"
    /\ LET i == queue[cur]
           p == [papers[i] EXCEPT !.download_status = DOWNLOADING]
       IN  IF inst
             THEN /\ papers' = [papers EXCEPT ![i] = p]
                  /\ UNCHANGED saved
             ELSE /\ saved' = p.journal_type
                  /\ papers' = [papers EXCEPT ![i] = OverrideJournalType(p)]
    /\ pc' = "route"
    /\ UNCHANGED <<env, inst, target, files, phase, queue, cur, succ, prio, ok,
                   invoked, attempts, result, pool0, slept, rlVars, rtVars, vdVars, chVars>>

\* DownloadManager.download_paper(paper, pdf_path)
DownloadPaper ==
    /\ pc = "route"
    /\ LET i == queue[cur]
           r == download_paper(papers[i], env[i], files, PdfPath(papers[i]))
       IN  /\ papers' = [papers EXCEPT ![i] = r.paper]
           /\ files' = r.files
           /\ ok' = r.ok
           /\ invoked' = r.chains
    /\ pc' = "single_end"
    /\ UNCHANGED <<env, inst, target, phase, queue, cur, succ, prio, saved,
                   attempts, result, pool0, slept, rlVars, rtVars, vdVars, chVars>>

\* _download_single_paper from the return of download_paper to its own return
SingleEnd ==
    /\ pc = "single_end"
    /\ LET i == queue[cur]
           p1 == IF ok THEN [papers[i] EXCEPT !.download_status = DOWNLOADED]
                       ELSE papers[i]
           p2 == IF inst THEN p1 ELSE RestoreJournalType(p1, saved)
       IN  papers' = [papers EXCEPT ![i] = FailIfStillDownloading(p2)]
    /\ pc' = "resolve"
    /\ UNCHANGED <<env, inst, target, files, phase, queue, cur, succ, prio, ok,
                   saved, invoked, attempts, result, pool0, slept, rlVars, rtVars, vdVars, chVars>>

\* the phase's target: target_count in phase 1, needed_count in phase 2
PhaseTarget == IF phase = 1 THEN target ELSE target - Len(prio)

\* a loop that sleeps only after a failed download
Sleeps_OnFailure(success, reached) == ~success

\* "Rate limiting": await asyncio.sleep(1) ends the loop body; the break of
\* a success that reaches the target is the only way past it
Sleeps(success, reached) == ~(success /\ reached)

\* a loop that ends at its break only
LoopEnds_AtBreakOnly(success, reached, c, limit) == success /\ reached

\* a loop that gives up at the first failed download
LoopEnds_OnFailure(success, reached, c, limit) ==
    ~success \/ reached \/ c >= limit

\* the for loop of either phase ends at the break (a success that reaches the
\* target) or after its last paper
LoopEnds(success, reached, c, limit) ==
    (success /\ reached) \/ c >= limit

\* rest of the loop body of either phase: the outcome is recorded, the loop
\* breaks at the target or sleeps one second and goes on
Resolve ==
    /\ pc = "resolve"
    /\ LET i == queue[cur]
           p == papers[i]
           path == PdfPath(p)
           succ1 == IF ok THEN Append(succ, i) ELSE succ
           reached == TargetReached(succ1, PhaseTarget)
       IN  /\ papers' = [papers EXCEPT ![i] =
                 IF ok THEN Downloaded(p, path, StatSize(files, path))
                       ELSE MarkFailed(p)]
           /\ succ' = succ1
           /\ slept' = Sleeps(ok, reached)
           /\ IF LoopEnds(ok, reached, cur, LoopLimit(queue, target))
                THEN pc' = "phase_end" /\ cur' = cur
                ELSE pc' = "loop" /\ cur' = cur + 1
    /\ UNCHANGED <<env, inst, target, files, phase, queue, prio, ok, saved,
                   invoked, attempts, result, pool0, rlVars, rtVars, vdVars, chVars>>

\* ensure_target_downloads, "Phase 3": precise selection at or above the
\* target, the partial list below it
Finish(ps, all, n) ==
    IF Len(all) >= n THEN precise_selection(ps, all, n)
                     ELSE [papers |-> ps, selected |-> all]

\* remaining_papers = [p for p in papers if p not in priority_downloads]
RemainingPapers(ps, downloads) == FilterNotIn(ps, AllIds(ps), downloads)

\* ensure_target_downloads after _priority_download_phase has returned: the
\* early return, or the start of _supplementation_phase (an empty
\* remaining list makes it return [] at once)
PhaseOneEnd ==
    /\ pc = "phase_end"
    /\ phase = 1
    /\ prio' = succ
    /\ IF Len(succ) >= target
         THEN /\ result' = SubSeq(succ, 1, target)
              /\ pc' = "done"
              /\ UNCHANGED <<papers, queue, cur, succ, phase>>
         ELSE LET remaining == RemainingPapers(papers, succ)
                  needed == target - Len(succ)
              IN  IF remaining = <<>> \/ needed <= 0
                    THEN LET f == Finish(papers, succ, target)
                         IN  /\ papers' = f.papers
                             /\ result' = f.selected
                             /\ pc' = "done"
                             /\ UNCHANGED <<queue, cur, succ, phase>>
                    ELSE LET r == calculate_priority_scores(papers, remaining)
                         IN  /\ papers' = r.papers
                             /\ queue' = r.order
                             /\ cur' = 1
                             /\ succ' = <<>>
                             /\ phase' = 2
                             /\ pc' = "loop"
                             /\ UNCHANGED result
    /\ UNCHANGED <<env, inst, target, files, ok, saved, invoked, attempts,
                   pool0, slept, rlVars, rtVars, vdVars, chVars>>

\* ensure_target_downloads after _supplementation_phase has returned
PhaseTwoEnd ==
    /\ pc = "phase_end"
    /\ phase = 2
    /\ LET f == Finish(papers, prio \o succ, target)
       IN  /\ papers' = f.papers
           /\ result' = f.selected
    /\ pc' = "done"
    /\ UNCHANGED <<env, inst, target, files, phase, queue, cur, succ, prio, ok,
                   saved, invoked, attempts, pool0, slept, rlVars, rtVars, vdVars, chVars>>

Next ==
    \/ Call
    \/ BeginAttempt
    \/ SingleBegin
    \/ DownloadPaper
    \/ SingleEnd
    \/ Resolve
    \/ PhaseOneEnd
    \/ PhaseTwoEnd

Spec == Init /\ [][Next]_vars

----------------------------------------------------------------------------
(* _precise_selection called on its own, with a list of downloaded papers *)

\* the kinds whose attempt succeeds, as the phases leave them
DownloadedKinds ==
    {k \in Kinds : download_paper(MkPaper(k, 1), MkEnv(k), NoFiles, PdfPath(MkPaper(k, 1))).ok}

\* titles of the n candidates handed to the selection: all different, or
\* all alike in their first 30 characters, with or without a blank at the
\* cut, which only the workflow's _safe_filename strips
Titlings(n) ==
    {[i \in 1..n |-> <<ToString(i)>>], [i \in 1..n |-> <<"a">>],
     [i \in 1..n |-> <<"a", " ">>]}

TitledPaper(k, i, t) == [MkPaper(k, i) EXCEPT !.title = t]

MkDownloaded(k, i, t) ==
    LET p == TitledPaper(k, i, t)
        r == download_paper(p, MkEnv(k), NoFiles, PdfPath(p))
    IN  [r.paper EXCEPT !.priority_score = Score(p),
                        !.pdf_size = StatSize(r.files, PdfPath(p))]

\* what the downloads of the pool left in the pdf folder
RECURSIVE DownloadedFiles(_, _, _)
DownloadedFiles(pool, titles, n) ==
    IF n = 0 THEN NoFiles
    ELSE LET p == TitledPaper(pool[n], n, titles[n])
         IN  download_paper(p, MkEnv(pool[n]),
                            DownloadedFiles(pool, titles, n - 1), PdfPath(p)).files

Orderings(n) ==
    {s \in [1..n -> 1..n] : \A a, b \in 1..n : s[a] = s[b] => a = b}

SelInit ==
    /\ \E n \in 0..MaxPool : \E pool \in [1..n -> DownloadedKinds] :
       \E titles \in Titlings(n) :
         /\ papers = [i \in 1..n |-> MkDownloaded(pool[i], i, titles[i])]
         /\ files = DownloadedFiles(pool, titles, n)
         /\ env = [i \in 1..n |-> MkEnv(pool[i])]
         /\ attempts = [i \in 1..n |-> 1]
         /\ queue \in Orderings(n)
    /\ pool0 = papers
    /\ inst = FALSE
    /\ target \in 1..MaxTarget
    /\ pc = "sel_idle"
    /\ phase = 2
    /\ cur = 1
    /\ succ = <<>>
    /\ prio = <<>>
    /\ ok = FALSE
    /\ saved = UNKNOWN
    /\ invoked = <<>>
    /\ result = <<>>
    /\ slept = FALSE
    /\ RateLimiterIdle
    /\ RetryIdle
    /\ ValidateIdle
    /\ ChainIdle

\* _precise_selection(all_downloads = queue, target_count = target)
SelCall ==
    /\ pc = "sel_idle"
    /\ LET r == precise_selection(papers, queue, target)
       IN  /\ papers' = r.papers
           /\ result' = r.selected
    /\ pc' = "sel_done"
    /\ UNCHANGED <<env, inst, target, files, phase, queue, cur, succ, prio, ok,
                   saved, invoked, attempts, pool0, slept, rlVars, rtVars, vdVars, chVars>>

\* main._download_pdfs after ensure_target_downloads returned: the rename
\* loop over the returned papers
RECURSIVE RenameAll(_, _, _, _)
RenameAll(ps, fs, sel, k) ==
    IF k > Len(sel) THEN [papers |-> ps, files |-> fs]
    ELSE LET i == sel[k]
             old_path == ps[i].pdf_filename
             new_path == NewPath(ps[i])
         IN  IF ps[i].pdf_filename # <<>> /\ Exists(fs, old_path)
                /\ old_path # new_path
               THEN RenameAll([ps EXCEPT ![i].pdf_filename = new_path],
                              Rename(fs, old_path, new_path), sel, k + 1)
               ELSE RenameAll(ps, fs, sel, k + 1)

SelRename ==
    /\ pc = "sel_done"
    /\ LET r == RenameAll(papers, files, result, 1)
       IN  /\ papers' = r.papers
           /\ files' = r.files
    /\ pc' = "sel_renamed"
    /\ UNCHANGED <<env, inst, target, phase, queue, cur, succ, prio, ok,
                   saved, invoked, attempts, pool0, result, slept, rlVars,
                   rtVars, vdVars, chVars>>

SelNext == SelCall \/ SelRename

SpecSel == SelInit /\ [][SelNext]_vars

----------------------------------------------------------------------------
(* _calculate_priority_scores called on its own, with one paper *)

\* the values of the fields the score reads, on both sides of every threshold
Years == {2009, 2010, 2017, 2018, 2019, 2020}

Citations == {0, 25, 99, 100, 101, 500}

Relevances == {0, 550, 1000}

JournalTypes == {ELSEVIER, NON_ELSEVIER, UNKNOWN}

ScoredPaper(y, c, r, jt) ==
    [MkPaper([doi |-> "10.1016/", year |-> y, citation_count |-> c,
              relevance_score |-> r], 1) EXCEPT !.journal_type = jt]

ScoreInit ==
    /\ \E y \in Years, c \in Citations, r \in Relevances, jt \in JournalTypes :
          papers = <<ScoredPaper(y, c, r, jt)>>
    /\ pool0 = papers
    /\ env = <<>>
    /\ attempts = <<0>>
    /\ inst = FALSE
    /\ target = 1
    /\ files = NoFiles
    /\ pc = "score_idle"
    /\ phase = 1
    /\ queue = <<>>
    /\ cur = 1
    /\ succ = <<>>
    /\ prio = <<>>
    /\ ok = FALSE
    /\ saved = UNKNOWN
    /\ invoked = <<>>
    /\ result = <<>>
    /\ slept = FALSE
    /\ RateLimiterIdle
    /\ RetryIdle
    /\ ValidateIdle
    /\ ChainIdle

\* _calculate_priority_scores(papers)
ScoreCall ==
    /\ pc = "score_idle"
    /\ LET r == calculate_priority_scores(papers, AllIds(papers))
       IN  /\ papers' = r.papers
           /\ queue' = r.order
    /\ pc' = "score_done"
    /\ UNCHANGED <<env, inst, target, files, phase, cur, succ, prio, ok, saved,
                   invoked, attempts, result, pool0, slept, rlVars, rtVars,
                   vdVars, chVars>>

ScoreNext == ScoreCall

SpecScore == ScoreInit /\ [][ScoreNext]_vars

----------------------------------------------------------------------------
(* utils.RateLimiter with one sequential caller and a simulated clock *)

Window == 60

TickSteps == {10, 30}

\* by how much a sleep may return late
Overshoot == {0, 10}

\* [call_time for call_time in self.calls if now - call_time < 60]
RECURSIVE Prune(_, _)
Prune(cs, t) ==
    IF cs = <<>> THEN <<>>
    ELSE (IF t - cs[1] < Window THEN <<cs[1]>> ELSE <<>>) \o Prune(Tail(cs), t)

\* the limit tested with > instead of >=
LimitHit_Above(cs, c) == Len(cs) > c

\* if len(self.calls) >= self.calls_per_minute
LimitHit(cs, c) == Len(cs) >= c

NoDownload ==
    /\ papers = <<>>
    /\ env = <<>>
    /\ attempts = <<>>
    /\ pool0 = <<>>
    /\ inst = FALSE
    /\ target = 1
    /\ files = NoFiles
    /\ pc = "rate_limiter"
    /\ phase = 1
    /\ queue = <<>>
    /\ cur = 1
    /\ succ = <<>>
    /\ prio = <<>>
    /\ ok = FALSE
    /\ saved = UNKNOWN
    /\ invoked = <<>>
    /\ result = <<>>
    /\ slept = FALSE

RLInit ==
    /\ NoDownload
    /\ RetryIdle
    /\ ValidateIdle
    /\ ChainIdle
    /\ now = 0
    /\ calls = <<>>
    /\ granted = <<>>
    /\ ceiling \in 1..MaxCeiling

\* the simulated clock advances between calls
Tick ==
    /\ \E d \in TickSteps :
         /\ now + d <= MaxClock
         /\ now' = now + d
    /\ UNCHANGED <<calls, ceiling, granted, dlVars, rtVars, vdVars, chVars>>

\* RateLimiter.wait_if_needed, the sleep included
WaitIfNeeded ==
    /\ Len(granted) < MaxCalls
    /\ LET pruned == Prune(calls, now)
       IN  IF LimitHit(pruned, ceiling) /\ Window - (now - pruned[1]) > 0
             THEN \E late \in Overshoot :
                    LET woke == now + (Window - (now - pruned[1])) + late
                    IN  /\ now' = woke
                        /\ calls' = Append(Prune(pruned, woke), woke)
                        /\ granted' = Append(granted, woke)
             ELSE /\ now' = now
                  /\ calls' = Append(pruned, now)
                  /\ granted' = Append(granted, now)
    /\ UNCHANGED <<ceiling, dlVars, rtVars, vdVars, chVars>>

RLNext ==
    \/ Tick
    \/ WaitIfNeeded

SpecRL == RLInit /\ [][RLNext]_vars

\* ---------------------------------------------------------------------
\* retry_on_failure: the decorator around every client call
\* ---------------------------------------------------------------------

\* how many invocations of the wrapped function a run is planned for
MaxInvocations == 4

\* @retry_on_failure(max_retries=3) at every use, and the default
max_retries == 3

\* the default delay of retry_on_failure, in seconds
delay == 1

\* an error message is the sequence of the phrases it is made of, lowercased
\* as _is_retryable_error lowercases it; "pattern in error_str"
Contains(msg, pattern) == \E j \in 1..Len(msg) : msg[j] = pattern

non_retryable_patterns ==
    {"401", "403", "unauthorized", "forbidden", "permission denied",
     "invalid api key", "authentication failed",
     "400", "bad request", "invalid input", "malformed",
     "unsupported format", "file corrupted", "pdf corrupted",
     "404", "not found", "file not found", "does not exist"}

retryable_patterns ==
    {"500", "502", "503", "504", "internal error", "server error",
     "service unavailable", "timeout", "timed out", "connection", "network",
     "429", "too many requests", "rate limit",
     "quota", "exceeded", "limit reached",
     "temporarily unavailable", "try again", "retry",
     "overloaded", "busy", "unavailable"}

\* the classifier with the two loops in the other order
is_retryable_error_RetryableFirst(msg) ==
    IF \E pat \in retryable_patterns : Contains(msg, pat) THEN TRUE
    ELSE IF \E pat \in non_retryable_patterns : Contains(msg, pat) THEN FALSE
    ELSE TRUE

\* main._is_retryable_error: the non-retryable patterns are looked for first,
\* and an error matching no pattern is retryable
is_retryable_error(msg) ==
    IF \E pat \in non_retryable_patterns : Contains(msg, pat) THEN FALSE
    ELSE IF \E pat \in retryable_patterns : Contains(msg, pat) THEN TRUE
    ELSE TRUE

\* str.lower() on the phrases error messages are made of here
LowerOf(phrase) ==
    CASE phrase = "Forbidden" -> "forbidden"
      [] phrase = "Timeout"   -> "timeout"
      [] phrase = "Not Found" -> "not found"
      [] OTHER                -> phrase

lower(msg) == [j \in 1..Len(msg) |-> LowerOf(msg[j])]

\* str(e) of the exceptions _analyze_pdfs catches: phrases of both pattern
\* lists, capitalised or not, and phrases of neither
Phrases ==
    {"403", "Forbidden", "Not Found", "timeout", "Timeout", "503", "retry",
     "disk full"}

Messages == UNION {[1..n -> Phrases] : n \in 0..MaxMsgLen}

\* _analyze_pdfs caught an exception with message error_msg (kept in
\* last_exception); the classification is not made yet
ClassifyInit ==
    /\ NoDownload
    /\ RateLimiterIdle
    /\ ValidateIdle
    /\ ChainIdle
    /\ op = <<>>
    /\ attempt = 0
    /\ invocations = 0
    /\ sleeps = <<>>
    /\ last_exception \in Messages
    /\ outcome = [kind |-> "none", value |-> <<>>]

\* is_retryable = self._is_retryable_error(error_msg)
Classify ==
    /\ outcome.kind = "none"
    /\ outcome' = [kind |-> "classified",
                   value |-> <<is_retryable_error(lower(last_exception))>>]
    /\ UNCHANGED <<op, attempt, invocations, sleeps, last_exception,
                   dlVars, rlVars, vdVars, chVars>>

ClassifyNext == Classify

SpecClassify == ClassifyInit /\ [][ClassifyNext]_vars

\* what one invocation of the wrapped function does
Returns == [ok |-> TRUE, text |-> <<"result">>]
Raises403 == [ok |-> FALSE, text |-> <<"http", "403", "forbidden">>]
Raises503 == [ok |-> FALSE, text |-> <<"http", "503", "service unavailable">>]
RaisesTimeout == [ok |-> FALSE, text |-> <<"request", "timed out">>]

Behaviours == {Returns, Raises403, Raises503, RaisesTimeout}

\* for attempt in range(max_retries)
InRange_Inclusive(a, n) == a <= n

InRange(a, n) == a < n

\* if attempt < max_retries - 1: await asyncio.sleep(delay * (2 ** attempt))
Backoff(a, n) == IF a < n - 1 THEN <<delay * (2 ^ a)>> ELSE <<>>

RetryInit ==
    /\ NoDownload
    /\ RateLimiterIdle
    /\ ValidateIdle
    /\ ChainIdle
    /\ op \in [1..MaxInvocations -> Behaviours]
    /\ attempt = 0
    /\ invocations = 0
    /\ sleeps = <<>>
    /\ last_exception = <<"no attempts made">>
    /\ outcome = [kind |-> "none", value |-> <<>>]

\* one turn of the loop: the wrapped function is awaited; its value is
\* returned, or its exception is kept, slept on and the loop continues
RetryInvoke ==
    /\ outcome.kind = "none"
    /\ InRange(attempt, max_retries)
    /\ invocations < MaxInvocations
    /\ invocations' = invocations + 1
    /\ LET did == op[invocations + 1] IN
         IF did.ok
         THEN /\ outcome' = [kind |-> "returned", value |-> did.text]
              /\ UNCHANGED <<attempt, sleeps, last_exception>>
         ELSE /\ last_exception' = did.text
              /\ sleeps' = sleeps \o Backoff(attempt, max_retries)
              /\ attempt' = attempt + 1
              /\ UNCHANGED outcome
    /\ UNCHANGED <<op, dlVars, rlVars, vdVars, chVars>>

\* the range is exhausted: raise last_exception
RetryRaise ==
    /\ outcome.kind = "none"
    /\ ~InRange(attempt, max_retries)
    /\ outcome' = [kind |-> "raised", value |-> last_exception]
    /\ UNCHANGED <<op, attempt, invocations, sleeps, last_exception,
                   dlVars, rlVars, vdVars, chVars>>

RetryNext == RetryInvoke \/ RetryRaise

SpecRetry == RetryInit /\ [][RetryNext]_vars

\* ---------------------------------------------------------------------
\* validate_material_id
\* ---------------------------------------------------------------------

\* the longest material id tried
MaxIdLen == 4

\* a string is the sequence of its characters
Digits == {"0", "1", "2", "3", "4", "5", "6", "7", "8", "9"}

Whitespace == {" "}

IdChars == {"m", "p", "-", "7", "x", " "}

Strings == UNION {[1..n -> IdChars] : n \in 0..MaxIdLen}

\* str.strip(): the whitespace at both ends is dropped
RECURSIVE lstrip(_)
lstrip(str) ==
    IF str # <<>> /\ Head(str) \in Whitespace THEN lstrip(Tail(str)) ELSE str

RECURSIVE rstrip(_)
rstrip(str) ==
    IF str # <<>> /\ str[Len(str)] \in Whitespace
      THEN rstrip(SubSeq(str, 1, Len(str) - 1))
      ELSE str

strip(str) == rstrip(lstrip(str))

\* str.isdigit(): at least one character and every character a digit
isdigit(str) == str # <<>> /\ \A j \in 1..Len(str) : str[j] \in Digits

\* str.startswith(prefix)
startswith(str, prefix) ==
    Len(str) >= Len(prefix) /\ SubSeq(str, 1, Len(prefix)) = prefix

MpPrefix == <<"m", "p", "-">>

Returned(str) == [kind |-> "returned", value |-> str]

ValueError == [kind |-> "ValueError", value |-> <<>>]

validate_material_id(id) ==
    IF id = <<>> THEN ValueError
    ELSE LET stripped == strip(id) IN
           IF isdigit(stripped) THEN Returned(MpPrefix \o stripped)
           ELSE IF startswith(stripped, MpPrefix) THEN Returned(stripped)
           ELSE ValueError

ValInit ==
    /\ NoDownload
    /\ RateLimiterIdle
    /\ RetryIdle
    /\ ChainIdle
    /\ material_id \in Strings
    /\ validated = [kind |-> "none", value |-> <<>>]

\* validate_material_id(material_id) is called
Validate ==
    /\ validated.kind = "none"
    /\ validated' = validate_material_id(material_id)
    /\ UNCHANGED <<material_id, dlVars, rlVars, rtVars, chVars>>

ValNext == Validate

SpecVal == ValInit /\ [][ValNext]_vars

\* ---------------------------------------------------------------------
\* AnnaArchiveDownloader: from the DOI to the MD5 hash
\* ---------------------------------------------------------------------

\* what the network does with one request: an answer that is a failure makes
\* NetworkSession.get raise NetworkError (raise_for_status, timeout)
Failures == {"http_404", "http_503", "timeout"}

Raises(answer) == answer \in Failures

\* the forms in which a DOI is put to the search page
QueryForms == {"plain", "spaced", "prefixed", "quoted_prefixed", "quoted"}

\* _get_file_md5: search_queries = [doi, doi.replace('/', ' '), f'doi:{doi}']
search_queries == <<"plain", "spaced", "prefixed">>

\* _find_md5_by_search: search_strategies
search_strategies == <<"quoted_prefixed", "prefixed", "plain", "quoted">>

\* the hash a page shows: the SciDB page its own, each search form its own
PageMd5 == "md5_page"

Md5Of(form) == "md5_" \o form

NoMd5 == <<>>

\* _search_strategy: one search request; a failure is caught and gives None
search_strategy(c, form) ==
    [md5 |-> IF c.search[form] = "hash" THEN <<Md5Of(form)>> ELSE NoMd5,
     log |-> <<<<"get", "search", form>>>>]

\* the loop over the queries: the first query that gives a hash returns it
RECURSIVE FirstHit(_, _)
FirstHit(c, forms) ==
    IF forms = <<>> THEN [md5 |-> NoMd5, log |-> <<>>]
    ELSE LET r == search_strategy(c, Head(forms)) IN
           IF r.md5 # NoMd5 THEN r
           ELSE LET rest == FirstHit(c, Tail(forms))
                IN  [md5 |-> rest.md5, log |-> r.log \o rest.log]

\* _get_file_md5: the SciDB page, then the search queries; the get of the
\* page is inside the try, so its NetworkError ends the method with None
get_file_md5(c) ==
    LET asked == <<<<"get", "scidb">>>> IN
      IF Raises(c.page) THEN [md5 |-> NoMd5, log |-> asked]
      ELSE IF c.page = "hash" THEN [md5 |-> <<PageMd5>>, log |-> asked]
      ELSE LET r == FirstHit(c, search_queries)
           IN  [md5 |-> r.md5, log |-> asked \o r.log]

PageAnswers == {"hash", "no_match"} \cup Failures

SearchAnswers == {"hash", "no_match", "http_503"}

\* a response body: the error of a request that fails, or the size in bytes,
\* where the %PDF signature is ("start" of the body, "near" the start but
\* not at it, "none") and whether the content-type says application/pdf
Body(err, size, sig, ctype) ==
    [error |-> err, size |-> size, sig |-> sig, ctype |-> ctype]

RequestFails == Body("http_503", 0, "none", FALSE)

\* one call of a provider chain and the answers the network holds for it:
\*   page, search, fast, url, endpoints, found: AnnaArchiveDownloader (the
\*     SciDB page, the search page per query form, the fast download API, the
\*     URL it grants, the three endpoints of the page's hash, the endpoints
\*     of a hash found by search);
\*   binary, xml: ElsevierDownloader (the two requests of the article)
MkCall(provider, doi, key, pg, srch, fast, url, eps, found, binary, xml) ==
    [provider |-> provider, doi |-> doi, api_key |-> key, page |-> pg,
     search |-> srch, fast |-> fast, url |-> url, endpoints |-> eps,
     found |-> found, binary |-> binary, xml |-> xml]

AnnaCall(doi, key, pg, srch, fast, url, eps, found) ==
    MkCall("anna", doi, key, pg, srch, fast, url, eps, found,
         RequestFails, RequestFails)

NoEndpoints == <<RequestFails, RequestFails, RequestFails>>

\* the calls of _get_file_md5: every answer of the page, every answer of each
\* of the three queries
Md5Calls ==
    {AnnaCall("10.1021/", FALSE, pg,
              [f \in QueryForms |->
                  IF f = "plain" THEN a1
                  ELSE IF f = "spaced" THEN a2
                  ELSE IF f = "prefixed" THEN a3 ELSE "no_match"],
              "absent", RequestFails, NoEndpoints, RequestFails) :
        pg \in PageAnswers, a1 \in SearchAnswers, a2 \in SearchAnswers,
        a3 \in SearchAnswers}

Md5Init ==
    /\ NoDownload
    /\ RateLimiterIdle
    /\ ValidateIdle
    /\ RetryIdle
    /\ call \in Md5Calls
    /\ log = <<>>

\* _get_file_md5(doi) is called
GetFileMd5 ==
    /\ outcome.kind = "none"
    /\ LET r == get_file_md5(call)
       IN  /\ outcome' = [kind |-> "returned", value |-> r.md5]
           /\ log' = log \o r.log
    /\ UNCHANGED <<call, op, attempt, invocations, sleeps, last_exception,
                   dlVars, rlVars, vdVars>>

Md5Next == GetFileMd5

SpecMd5 == Md5Init /\ [][Md5Next]_vars

\* ---------------------------------------------------------------------
\* AnnaArchiveDownloader: from the MD5 hash to the file
\* ---------------------------------------------------------------------

Failed(b) == b.error # "none"

\* an unlink that leaves the file in place
RemoveFile_Kept(fs, path) == fs

\* output_path.unlink()
RemoveFile(fs, path) == [q \in DOMAIN fs \ {path} |-> fs[q]]

\* _get_fast_download_url: the URL the API grants, None on any other answer
get_fast_download_url(c) ==
    [url |-> c.fast = "url", log |-> <<<<"get", "fast_api">>>>]

\* _download_from_url: content that begins with %PDF is written; content of
\* more than 50000 bytes is written, read back and unlinked unless %PDF is in
\* its first 10 bytes
download_from_url(c, fs, path) ==
    LET b == c.url
        asked == <<<<"get", "url">>>>
        no == [ok |-> FALSE, size |-> 0, files |-> fs, log |-> asked]
    IN  IF Failed(b) THEN no
        ELSE IF b.size < 1000 THEN no
        ELSE IF b.sig = "start"
          THEN [ok |-> TRUE, size |-> b.size,
                files |-> WriteFile(fs, path, b.size),
                log |-> asked \o <<<<"write", path>>>>]
        ELSE IF b.size > 50000
          THEN IF b.sig = "near"
                 THEN [ok |-> TRUE, size |-> b.size,
                       files |-> WriteFile(fs, path, b.size),
                       log |-> asked \o <<<<"write", path>>, <<"read", path>>>>]
                 ELSE [ok |-> FALSE, size |-> 0,
                       files |-> RemoveFile(WriteFile(fs, path, b.size), path),
                       log |-> asked \o <<<<"write", path>>, <<"read", path>>,
                                          <<"unlink", path>>>>]
        ELSE no

\* the three endpoints of a hash: those of the page's hash, or those of a
\* hash that a search has found
EndpointsOf(c, md5) ==
    IF md5 = <<PageMd5>> THEN c.endpoints ELSE <<c.found, c.found, c.found>>

\* _download_by_md5: is_pdf
is_pdf(b) == b.sig = "start" \/ b.ctype \/ b.size > 1000

\* _download_by_md5: the endpoints in their order; the first body that
\* is_pdf accepts is written and returned
RECURSIVE TryEndpoints(_, _, _, _, _)
TryEndpoints(c, md5, k, fs, path) ==
    IF k > Len(EndpointsOf(c, md5))
      THEN [ok |-> FALSE, size |-> 0, files |-> fs, log |-> <<>>]
    ELSE LET b == EndpointsOf(c, md5)[k]
             asked == <<<<"get", "endpoint", k, md5[1]>>>>
         IN  IF ~Failed(b) /\ is_pdf(b)
               THEN [ok |-> TRUE, size |-> b.size,
                     files |-> WriteFile(fs, path, b.size),
                     log |-> asked \o <<<<"write", path>>>>]
               ELSE LET rest == TryEndpoints(c, md5, k + 1, fs, path)
                    IN  [rest EXCEPT !.log = asked \o rest.log]

download_by_md5(c, md5, fs, path) == TryEndpoints(c, md5, 1, fs, path)

\* _find_md5_by_search: the four search strategies in their order
find_md5_by_search(c) == FirstHit(c, search_strategies)

\* a fast download that is asked for whether or not there is a key
FastDownload_Keyless(c, fs, path) ==
    LET u == get_fast_download_url(c) IN
      IF ~u.url THEN [ok |-> FALSE, size |-> 0, files |-> fs, log |-> u.log]
      ELSE LET r == download_from_url(c, fs, path)
           IN  [r EXCEPT !.log = u.log \o r.log]

\* download_pdf, "Step 2": the fast download, with an API key only
FastDownload(c, fs, path) ==
    IF ~c.api_key THEN [ok |-> FALSE, size |-> 0, files |-> fs, log |-> <<>>]
    ELSE LET u == get_fast_download_url(c) IN
           IF ~u.url THEN [ok |-> FALSE, size |-> 0, files |-> fs, log |-> u.log]
           ELSE LET r == download_from_url(c, fs, path)
                IN  [r EXCEPT !.log = u.log \o r.log]

\* download_pdf, "Method 2": a hash found by search and its endpoints
SearchDownload(c, fs, path) ==
    LET m == find_md5_by_search(c) IN
      IF m.md5 = NoMd5 THEN [ok |-> FALSE, size |-> 0, files |-> fs, log |-> m.log]
      ELSE LET r == download_by_md5(c, m.md5, fs, path)
           IN  [r EXCEPT !.log = m.log \o r.log]

\* AnnaArchiveDownloader.download_pdf: every exception is caught inside, so
\* the method returns (False, 0) and never raises
AnnaArchiveDownloader_download_pdf(c, fs, path) ==
    LET no == [ok |-> FALSE, size |-> 0, raised |-> FALSE, error |-> <<>>,
               files |-> fs, log |-> <<>>]
        Ret(r, before) == [ok |-> r.ok, size |-> r.size, raised |-> FALSE,
                           error |-> <<>>, files |-> r.files,
                           log |-> before \o r.log]
    IN  IF c.doi = "" THEN no
        ELSE LET m == get_file_md5(c) IN
          IF m.md5 = NoMd5 THEN [no EXCEPT !.log = m.log]
          ELSE LET f == FastDownload(c, fs, path) IN
            IF f.ok THEN Ret(f, m.log)
            ELSE LET e == download_by_md5(c, m.md5, f.files, path) IN
              IF e.ok THEN Ret(e, m.log \o f.log)
              ELSE Ret(SearchDownload(c, e.files, path), m.log \o f.log \o e.log)

\* ---------------------------------------------------------------------
\* ElsevierDownloader, and either provider's download_pdf under
\* retry_on_failure
\* ---------------------------------------------------------------------

\* _download_pdf_abstract: the article is asked for as a PDF and written when
\* the answer is typed application/pdf and begins with %PDF
download_pdf_abstract(c, fs, path) ==
    LET b == c.binary
        asked == <<<<"get", "binary">>>>
    IN  IF ~Failed(b) /\ b.ctype /\ b.sig = "start"
          THEN [ok |-> TRUE, size |-> b.size,
                files |-> WriteFile(fs, path, b.size),
                log |-> asked \o <<<<"write", path>>>>]
          ELSE [ok |-> FALSE, size |-> 0, files |-> fs, log |-> asked]

\* _get_enhanced_xml_content: the article is asked for as XML and the text
\* drawn from it is written next to the pdf path when it is over 500 long
get_enhanced_xml_content(c, fs, path) ==
    LET b == c.xml
        asked == <<<<"get", "xml">>>>
    IN  IF ~Failed(b) /\ b.size > 500
          THEN [ok |-> TRUE, size |-> b.size,
                files |-> WriteFile(fs, WithSuffixTxt(path), b.size),
                log |-> asked \o <<<<"write", WithSuffixTxt(path)>>>>]
          ELSE [ok |-> FALSE, size |-> 0, files |-> fs, log |-> asked]

\* a chain that asks for the XML before the PDF
StrategyOrder_XmlFirst == <<"xml", "binary">>

\* download_pdf: "Strategy 1", then "Strategy 2"
StrategyOrder == <<"binary", "xml">>

Strategy(name, c, fs, path) ==
    IF name = "binary" THEN download_pdf_abstract(c, fs, path)
                       ELSE get_enhanced_xml_content(c, fs, path)

\* ElsevierDownloader.download_pdf: ValueError for a DOI that is not
\* Elsevier's; the rate limiter; the first strategy, and the second when the
\* first failed
ElsevierDownloader_download_pdf(c, fs, path) ==
    IF c.doi = "" \/ ~is_elsevier_doi(c.doi)
      THEN [ok |-> FALSE, size |-> 0, raised |-> TRUE,
            error |-> <<"invalid elsevier doi">>, files |-> fs, log |-> <<>>]
    ELSE
      LET waited == <<<<"wait_if_needed", "elsevier">>>>
          r1 == Strategy(StrategyOrder[1], c, fs, path)
          r2 == Strategy(StrategyOrder[2], c, r1.files, path)
      IN  IF r1.ok
            THEN [ok |-> TRUE, size |-> r1.size, raised |-> FALSE,
                  error |-> <<>>, files |-> r1.files, log |-> waited \o r1.log]
            ELSE [ok |-> r2.ok, size |-> r2.size, raised |-> FALSE,
                  error |-> <<>>, files |-> r2.files,
                  log |-> waited \o r1.log \o r2.log]

download_pdf(c, fs, path) ==
    IF c.provider = "elsevier" THEN ElsevierDownloader_download_pdf(c, fs, path)
                               ELSE AnnaArchiveDownloader_download_pdf(c, fs, path)

\* the bodies tried
PdfBody == Body("none", 60000, "start", TRUE)
TinyBody == Body("none", 500, "none", FALSE)
TypedBody == Body("none", 500, "none", TRUE)
BigBody == Body("none", 60000, "none", FALSE)
NearBody == Body("none", 60000, "near", FALSE)

UrlBodies == {RequestFails, TinyBody, PdfBody, BigBody, NearBody}

EndpointBodies == {RequestFails, TinyBody, PdfBody, TypedBody, BigBody}

BinaryBodies == {RequestFails, TinyBody, PdfBody, TypedBody, NearBody}

XmlBodies == {RequestFails, TinyBody, BigBody}

FastAnswers == {"url", "absent", "null", "bad_json", "http_503"}

\* every query form gives the same answer
AllForms(a) == [f \in QueryForms |-> a]

\* the calls of AnnaArchiveDownloader.download_pdf; an answer that no request
\* of the call can ask for is held fixed
AnnaCalls ==
    {AnnaCall(doi, key, pg, AllForms(a), fast, url, eps, found) :
        doi \in {"10.1021/"}, key \in BOOLEAN,
        pg \in {"hash", "no_match", "http_503"}, a \in {"hash", "no_match"},
        fast \in FastAnswers, url \in UrlBodies,
        eps \in [1..3 -> EndpointBodies], found \in EndpointBodies}

Relevant(c) ==
    /\ ~c.api_key => c.fast = "absent"
    /\ c.fast # "url" => c.url = RequestFails
    /\ c.search["plain"] # "hash" => c.found = RequestFails

ElsevierCalls ==
    {MkCall("elsevier", doi, TRUE, "no_match", AllForms("no_match"), "absent",
            RequestFails, NoEndpoints, RequestFails, binary, xml) :
        doi \in {"10.1016/", "10.1021/", ""}, binary \in BinaryBodies,
        xml \in XmlBodies}

ChainCalls ==
    {c \in AnnaCalls : Relevant(c)}
    \cup {AnnaCall("", FALSE, "hash", AllForms("no_match"), "absent",
                   RequestFails, NoEndpoints, RequestFails)}
    \cup ElsevierCalls

\* output_path of the call
ChainPath == <<"pdf", 1, <<"1">>>>

ChainInit ==
    /\ NoDownload
    /\ RateLimiterIdle
    /\ ValidateIdle
    /\ RetryIdle
    /\ call \in ChainCalls
    /\ log = <<>>

\* retry_on_failure around download_pdf, one turn of its loop: the value is
\* returned, or the exception is kept and slept on
ChainInvoke ==
    /\ outcome.kind = "none"
    /\ InRange(attempt, max_retries)
    /\ invocations < MaxInvocations
    /\ invocations' = invocations + 1
    /\ LET r == download_pdf(call, files, ChainPath) IN
         /\ files' = r.files
         /\ log' = log \o <<<<"download_pdf", call.provider>>>> \o r.log
         /\ IF r.raised
              THEN /\ last_exception' = r.error
                   /\ sleeps' = sleeps \o Backoff(attempt, max_retries)
                   /\ attempt' = attempt + 1
                   /\ UNCHANGED outcome
              ELSE /\ outcome' = [kind |-> "returned", value |-> <<r.ok, r.size>>]
                   /\ UNCHANGED <<attempt, sleeps, last_exception>>
    /\ UNCHANGED <<call, op, papers, env, inst, target, pc, phase, queue, cur,
                   succ, prio, ok, saved, invoked, attempts, result, pool0,
                   slept, rlVars, vdVars>>

\* the range is exhausted: raise last_exception
ChainRaise ==
    /\ outcome.kind = "none"
    /\ ~InRange(attempt, max_retries)
    /\ outcome' = [kind |-> "raised", value |-> last_exception]
    /\ UNCHANGED <<op, attempt, invocations, sleeps, last_exception,
                   dlVars, rlVars, vdVars, chVars>>

ChainNext == ChainInvoke \/ ChainRaise

SpecChain == ChainInit /\ [][ChainNext]_vars

----------------------------------------------------------------------------
(* config.load_config and MaterialAnalysisWorkflow.__init__.  The process  *)
(* environment is kept in call, the construction's outcome in outcome, the *)
(* retrieval attempts started so far in log.                               *)

\* a variable that is not set, and Python's None
Unset == "<unset>"

None == "<None>"

\* os.getenv(name, default)
getenv(environ, name, default) ==
    IF environ[name] = Unset THEN default ELSE environ[name]

\* "not key"
Falsy(value) == value \in {"", None}

\* required_keys of a configuration that does not ask for the Elsevier key
required_keys_NoElsevier(api_config) ==
    <<[name |-> "Materials Project", key |-> api_config.materials_project],
      [name |-> "Gemini", key |-> api_config.gemini]>>

\* APIConfig.__post_init__: required_keys, in the order of the dict
required_keys(api_config) ==
    <<[name |-> "Materials Project", key |-> api_config.materials_project],
      [name |-> "Gemini", key |-> api_config.gemini],
      [name |-> "Elsevier", key |-> api_config.elsevier]>>

\* missing = [name for name, key in required_keys.items() if not key]
RECURSIVE MissingOf(_)
MissingOf(keys) ==
    IF keys = <<>> THEN <<>>
    ELSE (IF Falsy(Head(keys).key) THEN <<Head(keys).name>> ELSE <<>>)
           \o MissingOf(Tail(keys))

missing(api_config) == MissingOf(required_keys(api_config))

APIConfig(environ) ==
    [materials_project |-> getenv(environ, "MP_API_KEY", ""),
     semantic_scholar  |-> getenv(environ, "SEMANTIC_SCHOLAR_API_KEY", None),
     gemini            |-> getenv(environ, "GEMINI_API_KEY", ""),
     elsevier          |-> getenv(environ, "ELSEVIER_API_KEY", ""),
     anna_archive      |-> getenv(environ, "ANNA_ARCHIVE_API_KEY", None)]

\* os.getenv('WITHIN_INSTITUTIONAL_IP', 'false').lower() in (...)
within_institutional_ip(environ) ==
    LowerOf(getenv(environ, "WITHIN_INSTITUTIONAL_IP", "false"))
        \in {"true", "1", "yes", "on"}

\* load_config(): the ValueError of __post_init__, or the two configurations
load_config(environ) ==
    LET api_config == APIConfig(environ)
    IN  IF missing(api_config) # <<>>
          THEN [raised |-> TRUE, error |-> <<"ValueError">> \o missing(api_config),
                inst |-> FALSE]
          ELSE [raised |-> FALSE, error |-> <<>>,
                inst |-> within_institutional_ip(environ)]

KeyValues == {Unset, "", "k"}

Environs ==
    [MP_API_KEY : KeyValues, GEMINI_API_KEY : KeyValues,
     ELSEVIER_API_KEY : KeyValues, SEMANTIC_SCHOLAR_API_KEY : {Unset, "k"},
     ANNA_ARCHIVE_API_KEY : {Unset, "k"},
     WITHIN_INSTITUTIONAL_IP : {Unset, "on", "false"},
     GEMINI_AVAILABLE : BOOLEAN]

ConfigInit ==
    /\ papers = <<>>
    /\ env = <<>>
    /\ inst = FALSE
    /\ target = 1
    /\ files = NoFiles
    /\ pc = "new"
    /\ phase = 1
    /\ queue = <<>>
    /\ cur = 1
    /\ succ = <<>>
    /\ prio = <<>>
    /\ ok = FALSE
    /\ saved = UNKNOWN
    /\ invoked = <<>>
    /\ attempts = <<>>
    /\ result = <<>>
    /\ pool0 = <<>>
    /\ slept = FALSE
    /\ RateLimiterIdle
    /\ RetryIdle
    /\ ValidateIdle
    /\ call \in Environs
    /\ log = <<>>

\* MaterialAnalysisWorkflow(): load_config, then _init_clients, where the
\* GeminiClient constructor raises ImportError without its library
WorkflowInit ==
    /\ pc = "new"
    /\ LET r == load_config(call)
       IN  IF r.raised
             THEN /\ outcome' = [kind |-> "raised", value |-> r.error]
                  /\ pc' = "no_workflow"
                  /\ UNCHANGED inst
           ELSE IF ~call.GEMINI_AVAILABLE
             THEN /\ outcome' = [kind |-> "raised", value |-> <<"ImportError">>]
                  /\ pc' = "no_workflow"
                  /\ UNCHANGED inst
           ELSE /\ outcome' = [kind |-> "returned", value |-> <<>>]
                /\ pc' = "workflow"
                /\ inst' = r.inst
    /\ UNCHANGED <<papers, env, target, files, phase, queue, cur, succ, prio,
                   ok, saved, invoked, attempts, result, pool0, slept,
                   op, attempt, invocations, sleeps, last_exception,
                   rlVars, vdVars, chVars>>

\* run_analysis on the constructed workflow comes to a retrieval attempt
RunAnalysis ==
    /\ pc \in {"workflow", "batch"}
    /\ Len(log) < MaxTarget
    /\ log' = Append(log, <<"attempt", Len(log) + 1>>)
    /\ pc' = "batch"
    /\ UNCHANGED <<papers, env, inst, target, files, phase, queue, cur, succ,
                   prio, ok, saved, invoked, attempts, result, pool0, slept,
                   rlVars, rtVars, vdVars, call>>

ConfigNext == WorkflowInit \/ RunAnalysis

SpecConfig == ConfigInit /\ [][ConfigNext]_vars

----------------------------------------------------------------------------
(* utils.RateLimiter shared by concurrent coroutines.  call[c] is where    *)
(* coroutine c stands: outside wait_if_needed, or suspended in its         *)
(* asyncio.sleep until the time wake.  The statements between two awaits   *)
(* run without interruption.                                               *)

Callers == 1..MaxCallers

Outside == [at |-> "outside", wake |-> 0]

Asleep(c) == call[c].at = "asleep"

SharedInit ==
    /\ NoDownload
    /\ RetryIdle
    /\ ValidateIdle
    /\ log = <<>>
    /\ now = 0
    /\ calls = <<>>
    /\ granted = <<>>
    /\ ceiling \in 1..MaxCeiling
    /\ call = [c \in Callers |-> Outside]

\* the clock advances; a sleep returns late by at most an Overshoot
SharedTick ==
    /\ \E d \in TickSteps :
         /\ now + d <= MaxClock
         /\ \A c \in Callers :
              Asleep(c) => \E late \in Overshoot : now + d <= call[c].wake + late
         /\ now' = now + d
    /\ UNCHANGED <<calls, ceiling, granted, dlVars, rtVars, vdVars, chVars>>

\* coroutine c calls wait_if_needed and runs to its return or to its await
SharedEnter(c) ==
    /\ call[c].at = "outside"
    /\ Len(granted) + Cardinality({k \in Callers : Asleep(k)}) < MaxCalls
    /\ LET pruned == Prune(calls, now)
       IN  IF LimitHit(pruned, ceiling) /\ Window - (now - pruned[1]) > 0
             THEN /\ calls' = pruned
                  /\ call' = [call EXCEPT ![c] =
                        [at |-> "asleep",
                         wake |-> now + (Window - (now - pruned[1]))]]
                  /\ UNCHANGED granted
             ELSE /\ calls' = Append(pruned, now)
                  /\ granted' = Append(granted, now)
                  /\ UNCHANGED call
    /\ UNCHANGED <<now, ceiling, log, dlVars, rtVars, vdVars>>

\* the sleep of coroutine c returns: now is read again, the list is pruned
\* and the call is recorded
SharedWake(c) ==
    /\ Asleep(c)
    /\ now >= call[c].wake
    /\ calls' = Append(Prune(calls, now), now)
    /\ granted' = Append(granted, now)
    /\ call' = [call EXCEPT ![c] = Outside]
    /\ UNCHANGED <<now, ceiling, log, dlVars, rtVars, vdVars>>

SharedNext ==
    \/ SharedTick
    \/ \E c \in Callers : SharedEnter(c)
    \/ \E c \in Callers : SharedWake(c)

SpecShared == SharedInit /\ [][SharedNext]_vars

----------------------------------------------------------------------------
(* Papers saved to CSV and loaded back: Paper.to_dict, csv.DictWriter,     *)
(* csv.DictReader, Paper.from_dict.  The rows of the file are kept in log, *)
(* the papers handed to the save in pool0, the loaded ones in papers.      *)

\* the fields of models.Paper whose value is not a string, with the
\* paper_index and pdf_size values a run produces
StoredPapers ==
    [paper_index : 0..2, is_selected : BOOLEAN,
     journal_type : {ELSEVIER, NON_ELSEVIER, UNKNOWN},
     download_status : {PENDING, DOWNLOADING, DOWNLOADED, FAILED, SKIPPED},
     pdf_size : {0, 2048}, analysis_completed : BOOLEAN]

\* str(value) as csv.DictWriter writes a cell
StrBool(b) == IF b THEN "True" ELSE "False"

StrInt(n) == ToString(n)

\* int(text or 0)
IntOf(text) ==
    IF text = "" THEN 0 ELSE CHOOSE n \in 0..2048 : ToString(n) = text

\* bool(text): a string is true unless it is empty
BoolOf(text) == text # ""

\* Paper.to_dict, then the cells as the writer stores them
to_dict(p) ==
    [paper_index |-> StrInt(p.paper_index),
     is_selected |-> StrBool(p.is_selected),
     journal_type |-> p.journal_type,
     download_status |-> p.download_status,
     pdf_size |-> StrInt(p.pdf_size),
     analysis_completed |-> StrBool(p.analysis_completed)]

\* the columns save_papers_with_status adds to the row
WithStatusColumns(row, p) ==
    [c \in DOMAIN row \cup {"pending_download", "is_elsevier"} |->
        CASE c = "pending_download" ->
               StrBool(p.is_selected
                       /\ p.download_status \in {PENDING, DOWNLOADING})
          [] c = "is_elsevier" -> StrBool(p.journal_type = ELSEVIER)
          [] OTHER -> row[c]]

\* Paper.from_dict on a row of csv.DictReader
from_dict(data) ==
    [paper_index |-> IntOf(data.paper_index),
     is_selected |-> BoolOf(data.is_selected),
     journal_type |-> data.journal_type,
     download_status |-> data.download_status,
     pdf_size |-> IntOf(data.pdf_size),
     analysis_completed |-> BoolOf(data.analysis_completed)]

CsvInit ==
    /\ papers \in [1..1 -> StoredPapers]
    /\ pool0 = papers
    /\ env = <<>>
    /\ attempts = <<>>
    /\ inst = FALSE
    /\ target = 1
    /\ files = NoFiles
    /\ pc = "csv_none"
    /\ phase = 1
    /\ queue = <<>>
    /\ cur = 1
    /\ succ = <<>>
    /\ prio = <<>>
    /\ ok = FALSE
    /\ saved = UNKNOWN
    /\ invoked = <<>>
    /\ result = <<>>
    /\ slept = FALSE
    /\ RateLimiterIdle
    /\ RetryIdle
    /\ ValidateIdle
    /\ ChainIdle

\* FileManager.save_papers_csv
save_papers_csv ==
    /\ pc = "csv_none"
    /\ papers # <<>>
    /\ log' = [i \in DOMAIN papers |-> to_dict(papers[i])]
    /\ pc' = "csv_saved"
    /\ UNCHANGED <<papers, env, inst, target, files, phase, queue, cur, succ,
                   prio, ok, saved, invoked, attempts, result, pool0, slept,
                   rlVars, rtVars, vdVars, call>>

\* CSVStatusManager.save_papers_with_status
save_papers_with_status ==
    /\ pc = "csv_none"
    /\ log' = [i \in DOMAIN papers |->
                 WithStatusColumns(to_dict(papers[i]), papers[i])]
    /\ pc' = "csv_saved"
    /\ UNCHANGED <<papers, env, inst, target, files, phase, queue, cur, succ,
                   prio, ok, saved, invoked, attempts, result, pool0, slept,
                   rlVars, rtVars, vdVars, call>>

\* FileManager.load_papers_csv
load_papers_csv ==
    /\ pc = "csv_saved"
    /\ papers' = [i \in DOMAIN log |-> from_dict(log[i])]
    /\ pc' = "csv_loaded"
    /\ UNCHANGED <<env, inst, target, files, phase, queue, cur, succ,
                   prio, ok, saved, invoked, attempts, result, pool0, slept,
                   rlVars, rtVars, vdVars, chVars>>

\* CSVStatusManager.load_papers_with_status
load_papers_with_status ==
    /\ pc = "csv_saved"
    /\ papers' = [i \in DOMAIN log |-> from_dict(log[i])]
    /\ pc' = "csv_loaded_with_status"
    /\ UNCHANGED <<env, inst, target, files, phase, queue, cur, succ,
                   prio, ok, saved, invoked, attempts, result, pool0, slept,
                   rlVars, rtVars, vdVars, chVars>>

CsvNext ==
    \/ save_papers_csv
    \/ save_papers_with_status
    \/ load_papers_csv
    \/ load_papers_with_status

SpecCsv == CsvInit /\ [][CsvNext]_vars

----------------------------------------------------------------------------
(* Properties of ensure_target_downloads (Spec) *)

\* the attempt for the paper at position i of the pool succeeds
Retrievable(i) ==
    download_paper(pool0[i], env[i], NoFiles, PdfPath(pool0[i])).ok

NumRetrievable == Cardinality({i \in DOMAIN pool0 : Retrievable(i)})

Succeeded == {i \in DOMAIN papers : papers[i].download_status = DOWNLOADED}

Distinct(s) == \A a, b \in 1..Len(s) : s[a] = s[b] => a = b

\* C1: when at least target papers of the pool are retrievable, the call
\* does not raise and returns exactly target distinct papers, all DOWNLOADED,
\* and exactly target papers of the pool are DOWNLOADED on return.
C1_ExactlyTarget ==
    NumRetrievable >= target =>
        /\ pc # "raised"
        /\ pc = "done" =>
             /\ Len(result) = target
             /\ Distinct(result)
             /\ Range(result) = Succeeded
             /\ Cardinality(Succeeded) = target

\* the target was met although a paper ranked before the last success failed
C1_Witness ==
    /\ pc = "done"
    /\ NumRetrievable >= target
    /\ Len(result) = target
    /\ \E i \in DOMAIN papers : papers[i].download_status = FAILED

\* C2: with every paper retrievable and a pool of at least target papers,
\* the returned papers carry paper_index 1..target in the order returned,
\* which is descending priority score.
C2_IndicesOneToN ==
    (pc = "done" /\ Len(pool0) >= target /\ \A i \in DOMAIN pool0 : Retrievable(i)) =>
        /\ Len(result) = target
        /\ \A j \in 1..Len(result) : papers[result[j]].paper_index = j
        /\ \A j \in 1..(Len(result) - 1) :
             papers[result[j]].priority_score >= papers[result[j + 1]].priority_score

\* C3: with fewer than target retrievable papers (the empty pool included)
\* the call never raises and returns fewer than target papers, exactly the
\* ones that succeeded.
C3_BelowTargetNoRaise ==
    NumRetrievable < target =>
        /\ pc # "raised"
        /\ pc = "done" =>
             /\ Len(result) < target
             /\ Range(result) = Succeeded

AllowedTransitions ==
    {<<PENDING, DOWNLOADING>>, <<DOWNLOADING, DOWNLOADED>>,
     <<DOWNLOADING, FAILED>>, <<DOWNLOADED, SKIPPED>>, <<FAILED, SKIPPED>>}

\* C4: every change of a paper's download_status is Pending->InProgress,
\* InProgress->Success, InProgress->Failed or Success|Failed->Skipped; a
\* paper that reached Success or Failed never goes back to InProgress.
C4_StatusTransitions ==
    [][\A i \in DOMAIN papers :
          papers'[i].download_status # papers[i].download_status =>
             <<papers[i].download_status, papers'[i].download_status>>
                 \in AllowedTransitions]_vars

\* no attempt is running
Quiescent == pc \in {"idle", "loop", "phase_end", "done"}

\* C5: whenever no attempt is in progress, pdf_size > 0 exactly for the
\* papers whose status is DOWNLOADED.
C5_SizeIffDownloaded ==
    Quiescent =>
        \A i \in DOMAIN papers :
            (papers[i].pdf_size > 0) <=> (papers[i].download_status = DOWNLOADED)

\* C6: with institutional mode off no attempt calls the Elsevier chain.
C6_AnnaOnlyWhenOff ==
    ~inst => \A j \in 1..Len(invoked) : invoked[j] # "elsevier"

\* _download_single_paper is between its override and its return
InsideSingle == pc \in {"route", "single_end"}

\* C7: with institutional mode off, outside the body of
\* _download_single_paper (so at its return, at every scoring, at the start
\* of every later attempt and on return of the call) every paper's
\* journal_type is the one it had on entry.
C7_JournalTypeRestored ==
    (~inst /\ ~InsideSingle) =>
        \A i \in DOMAIN papers : papers[i].journal_type = pool0[i].journal_type

\* _download_single_paper has returned for an Elsevier paper in mode off
C7_Witness ==
    /\ ~inst
    /\ pc = "resolve"
    /\ pool0[queue[cur]].journal_type = ELSEVIER
    /\ papers[queue[cur]].journal_type = ELSEVIER
    /\ invoked # <<>>

IsScenario ==
    /\ Len(pool0) = 4
    /\ pool0 = [i \in 1..4 |-> MkPaper(ScenarioPool[i], i)]
    /\ env = [i \in 1..4 |-> MkEnv(ScenarioPool[i])]
    /\ target = 2

----------------------------------------------------------------------------
(* Properties of _precise_selection (SpecSel) *)

Skipped(ids) == {i \in ids : papers[i].download_status = SKIPPED}

\* C8: given M > N downloaded papers, exactly M - N of them become SKIPPED
\* and exactly N are returned; the returned ones stay DOWNLOADED and each
\* of them scores at least as high as every paper left out.
C8_TopNKept ==
    (pc = "sel_done" /\ Len(queue) > target) =>
        /\ Cardinality(Skipped(Range(queue))) = Len(queue) - target
        /\ Len(result) = target
        /\ Distinct(result)
        /\ Range(result) \subseteq Range(queue)
        /\ \A i \in Range(result) : papers[i].download_status = DOWNLOADED
        /\ \A i \in Range(result) : \A j \in Range(queue) \ Range(result) :
             Score(pool0[i]) >= Score(pool0[j])

\* a truncation that had to reorder: a kept paper outscores a paper that
\* stood before it in the list
C8_Witness ==
    /\ pc = "sel_done"
    /\ Len(queue) > target
    /\ Skipped(Range(queue)) # {}
    /\ result # SubSeq(queue, 1, target)

----------------------------------------------------------------------------
(* Properties of RateLimiter (SpecRL) *)

\* granted calls inside the 60-second window that ends at time t
InWindow(t) == {j \in 1..Len(granted) : granted[j] <= t /\ t - granted[j] < Window}

\* C10: no trailing 60-second window contains more than ceiling recorded
\* calls.
C10_WindowCeiling ==
    \A t \in 0..now : Cardinality(InWindow(t)) <= ceiling

\* the caller was suspended: a call has just been recorded exactly when the
\* call made ceiling calls before it left the window, and the window is full
C10_Witness ==
    /\ Len(granted) > ceiling
    /\ granted[Len(granted)] = now
    /\ now - granted[Len(granted) - ceiling] = Window
    /\ Cardinality(InWindow(now)) = ceiling

\* ---------------------------------------------------------------------
\* the retry decorator
\* ---------------------------------------------------------------------

\* C11: an operation whose failure message contains "403" (a Fatal error for
\* the classifier) is invoked exactly once: it is not retried and no backoff
\* sleep is made.
C11_FatalInvokedOnce ==
    (/\ invocations >= 1
     /\ ~op[1].ok
     /\ Contains(op[1].text, "403")
     /\ ~is_retryable_error(op[1].text))
        => invocations = 1 /\ sleeps = <<>>

FailsEveryTime(pattern) ==
    \A j \in 1..MaxInvocations : ~op[j].ok /\ Contains(op[j].text, pattern)

C12_Outcome ==
    /\ invocations <= max_retries
    /\ FailsEveryTime("503") => outcome.kind # "returned"
    /\ (outcome.kind = "raised" /\ FailsEveryTime("503")) =>
           /\ invocations = max_retries
           /\ outcome.value = op[max_retries].text
    /\ outcome.kind = "returned" =>
           /\ op[invocations].ok
           /\ outcome.value = op[invocations].text
           /\ \A j \in 1..(invocations - 1) : ~op[j].ok

\* C12: an operation that fails every time with "503" is invoked exactly
\* max_retries (3) times and then its last error is raised; when an invocation
\* succeeds its result is returned and the operation is not invoked again.
C12_BoundedRetry ==
    /\ []C12_Outcome
    /\ [][outcome.kind # "none" => invocations' = invocations]_vars

C12_Witness ==
    /\ FailsEveryTime("503")
    /\ outcome.kind = "raised"
    /\ invocations = max_retries
    /\ sleeps = <<1, 2>>

\* ---------------------------------------------------------------------
\* scoring, failures and routing inside ensure_target_downloads
\* ---------------------------------------------------------------------

\* the four fields the priority score is computed from, as the paper came in
ScoreInputs(i) ==
    <<pool0[i].relevance_score, pool0[i].journal_type, pool0[i].year,
      pool0[i].citation_count>>

\* a step that runs _calculate_priority_scores and nothing else on the papers:
\* the call (whole pool) and the start of phase 2 (remaining pool)
ScoringStep ==
    \/ pc = "idle" /\ pc' = "loop"
    \/ pc = "phase_end" /\ pc' = "loop"

\* once the pool is scored, papers with the same four fields have the same score
C13_SameInputsSameScore ==
    pc \notin {"idle", "raised"} =>
        \A i, j \in DOMAIN papers :
            ScoreInputs(i) = ScoreInputs(j) =>
                papers[i].priority_score = papers[j].priority_score

\* scoring a paper again gives the score it has, and changes no other field
C13_Rescored ==
    /\ pc \notin {"idle", "raised"} =>
           \A i \in DOMAIN papers :
               papers'[i].priority_score = papers[i].priority_score
    /\ ScoringStep =>
           \A i \in DOMAIN papers :
               papers'[i] = [papers[i] EXCEPT
                                !.priority_score = papers'[i].priority_score]

\* C13: the priority score is a pure function of relevance_score,
\* journal_type, year and citation_count: a candidate scored in the whole
\* pool and again in the remaining pool or the success set keeps its score,
\* and scoring writes no field but priority_score.
C13_ScorePure ==
    /\ []C13_SameInputsSameScore
    /\ [][C13_Rescored]_vars

\* phase 2 has rescored a paper that phase 1 had scored and failed, next to
\* another paper with the same four fields
C13_Witness ==
    /\ phase = 2
    /\ pc = "loop"
    /\ \E i, j \in DOMAIN papers :
          /\ i # j
          /\ ScoreInputs(i) = ScoreInputs(j)
          /\ papers[i].download_status = FAILED
          /\ papers[i].priority_score > 0
          /\ \E c \in 1..Len(queue) : queue[c] = i

\* C14: a candidate whose attempt fails (every strategy failed, or the router
\* or a provider raised) is marked FAILED and the loop goes on to the next
\* candidate: the failure neither ends ensure_target_downloads nor propagates.
C14_FailureIsLocal ==
    [][(pc = "resolve" /\ ~ok) =>
          /\ papers'[queue[cur]].download_status = FAILED
          /\ pc' # "raised"
          /\ cur < Len(queue) =>
                 /\ pc' = "loop"
                 /\ queue' = queue
                 /\ cur' = cur + 1
                 /\ papers'[queue'[cur']].download_status # DOWNLOADING]_vars

\* the Elsevier chain raised for one candidate, which is FAILED, and the next
\* candidate of the list is being attempted
C14_Witness ==
    /\ inst
    /\ pc = "route"
    /\ cur >= 2
    /\ env[queue[cur - 1]].els = "raise"
    /\ papers[queue[cur - 1]].download_status = FAILED
    /\ papers[queue[cur]].download_status = DOWNLOADING

\* C15: with within_institutional_ip on, a candidate whose DOI has an
\* Elsevier prefix is attempted through the Elsevier chain first; any other
\* DOI (a listed non-Elsevier prefix or an unknown one) is attempted through
\* the Anna Archive chain only, the Elsevier chain is never invoked for it.
C15_InstitutionalRouting ==
    (inst /\ pc \in {"single_end", "resolve"}) =>
        LET p == papers[queue[cur]] IN
          /\ p.doi \in ElsevierPrefixes =>
                 invoked # <<>> /\ invoked[1] = "elsevier"
          /\ p.doi \notin ElsevierPrefixes =>
                 \A j \in 1..Len(invoked) : invoked[j] = "anna"
          /\ (p.doi \notin ElsevierPrefixes /\ p.doi # "") =>
                 invoked = <<"anna">>

\* a DOI of an unknown prefix has gone through the Anna Archive chain alone,
\* after an Elsevier DOI went through the Elsevier chain
C15_Witness ==
    /\ inst
    /\ pc = "single_end"
    /\ papers[queue[cur]].doi \notin (ElsevierPrefixes \cup NonElsevierPrefixes)
    /\ invoked = <<"anna">>
    /\ cur >= 2
    /\ papers[queue[cur - 1]].doi \in ElsevierPrefixes

\* ---------------------------------------------------------------------
\* input validation
\* ---------------------------------------------------------------------

\* "mp-" followed by at least one digit and nothing else
WellFormedMp(str) ==
    startswith(str, MpPrefix) /\ isdigit(SubSeq(str, Len(MpPrefix) + 1, Len(str)))

\* C16: validate_material_id returns an all-digit id prefixed with "mp-",
\* returns a well-formed "mp-<digits>" id unchanged, and raises ValueError for
\* the empty string, for any other format and for the incomplete id "mp-".
\* (The classes are taken on the id without its surrounding whitespace.)
C16_ValidationClasses ==
    validated.kind # "none" =>
        LET id == strip(material_id) IN
          IF isdigit(id) THEN validated = Returned(MpPrefix \o id)
          ELSE IF WellFormedMp(id) THEN validated = Returned(id)
          ELSE validated = ValueError

\* ---------------------------------------------------------------------
\* the two phases
\* ---------------------------------------------------------------------

\* C17: the supplementation phase attempts only candidates that the priority
\* phase did not attempt, so no candidate is attempted more than once.
C17_AttemptedOnce ==
    \A i \in DOMAIN attempts : attempts[i] <= 1

\* the papers of the list after the one the loop is at
RankedAfter == {queue[c] : c \in (cur + 1)..Len(queue)}

\* no paper ranked after the current one has been touched by the phase
C18_LaterUntouched ==
    (phase = 1 /\ pc \notin {"idle", "raised"}) =>
        \A i \in RankedAfter :
            /\ attempts[i] = 0
            /\ papers[i].download_status = PENDING
            /\ papers[i].pdf_filename = pool0[i].pdf_filename
            /\ papers[i].pdf_size = pool0[i].pdf_size
            /\ papers[i].paper_index = pool0[i].paper_index

\* C18: the priority phase stops at the target-th success: once target papers
\* have succeeded no attempt is started any more, in either phase, and every
\* paper ranked after that success stays PENDING with pdf_filename, pdf_size
\* and paper_index as they were.
C18_StopsAtTarget ==
    /\ []C18_LaterUntouched
    /\ [][Cardinality(Succeeded) >= target => attempts' = attempts]_vars

\* phase 1 has returned at the target with papers of the list left over
C18_Witness ==
    /\ pc = "done"
    /\ phase = 1
    /\ Len(result) = target
    /\ Cardinality(Succeeded) = target
    /\ RankedAfter # {}
    /\ \E i \in DOMAIN papers : papers[i].download_status = FAILED

\* the list is in descending score order, equal scores in pool order
QueueSorted ==
    \A a, b \in 1..Len(queue) :
        a < b =>
            \/ papers[queue[a]].priority_score > papers[queue[b]].priority_score
            \/ /\ papers[queue[a]].priority_score = papers[queue[b]].priority_score
               /\ queue[a] < queue[b]

InProgress == {i \in DOMAIN papers : papers[i].download_status = DOWNLOADING}

\* C19: within a phase the attempts start in descending priority order, equal
\* scores in pool order, each one after the previous attempt is resolved; at
\* most one paper is DOWNLOADING at any time.
C19_OneAtATimeInOrder ==
    /\ Cardinality(InProgress) <= 1
    /\ pc \notin {"idle", "raised"} =>
           /\ QueueSorted
           /\ \A a, b \in 1..Len(queue) :
                  a < b => attempts[queue[a]] >= attempts[queue[b]]
           /\ \A c \in 1..Len(queue) :
                  c < cur => papers[queue[c]].download_status \in {DOWNLOADED, FAILED}
           /\ \A i \in InProgress :
                  i = queue[cur] /\ pc \in {"single", "route"}

\* the second of two papers of equal score is being attempted, after the first
C19_Witness ==
    /\ pc = "route"
    /\ cur >= 2
    /\ papers[queue[cur - 1]].priority_score = papers[queue[cur]].priority_score
    /\ queue[cur - 1] < queue[cur]
    /\ papers[queue[cur - 1]].download_status = FAILED
    /\ InProgress = {queue[cur]}

\* C20: DownloadManager.download_paper and the provider chains leave
\* download_status, pdf_filename and pdf_size of the paper as they are and
\* only return the outcome; every write is made by the orchestrator.
C20_RouterWritesNothing ==
    [][pc = "route" =>
          \A i \in DOMAIN papers :
              /\ papers'[i].download_status = papers[i].download_status
              /\ papers'[i].pdf_filename = papers[i].pdf_filename
              /\ papers'[i].pdf_size = papers[i].pdf_size]_vars

\* ---------------------------------------------------------------------
\* the Anna Archive chain
\* ---------------------------------------------------------------------

\* the positions of search_queries whose query shows a hash
Hits == {k \in 1..Len(search_queries) : call.search[search_queries[k]] = "hash"}

FirstOf(ks) == CHOOSE k \in ks : \A m \in ks : k <= m

\* the search requests for the first n queries, in their order
Searched(n) == [k \in 1..n |-> <<"get", "search", search_queries[k]>>]

\* C21: whenever the SciDB lookup gives no hash, because the page shows none
\* or because the request failed, the search queries are tried in their order
\* and the first one that shows a hash gives the result; the resolution fails
\* only when no query shows a hash.
C21_SearchAfterLookup ==
    (outcome.kind = "returned" /\ call.page # "hash") =>
        IF Hits = {}
          THEN /\ outcome.value = NoMd5
               /\ log = <<<<"get", "scidb">>>> \o Searched(Len(search_queries))
          ELSE /\ outcome.value = <<Md5Of(search_queries[FirstOf(Hits)])>>
               /\ log = <<<<"get", "scidb">>>> \o Searched(FirstOf(Hits))

\* the position in the log where the invocation that made event k began
InvocationOf(k) ==
    CHOOSE j \in 1..k :
        /\ log[j][1] = "download_pdf"
        /\ \A m \in (j + 1)..k : log[m][1] # "download_pdf"

IsGet(k) == log[k][1] = "get"

\* the request of event k failed: NetworkSession.get raised, with this error
ErrorOf(k) ==
    LET e == log[k] IN
      IF e[2] = "scidb" THEN (IF Raises(call.page) THEN call.page ELSE "none")
      ELSE IF e[2] = "search"
        THEN (IF Raises(call.search[e[3]]) THEN call.search[e[3]] ELSE "none")
      ELSE IF e[2] = "fast_api"
        THEN (IF Raises(call.fast) THEN call.fast ELSE "none")
      ELSE IF e[2] = "url" THEN call.url.error
      ELSE IF e[2] = "endpoint" THEN EndpointsOf(call, <<e[4]>>)[e[3]].error
      ELSE IF e[2] = "binary" THEN call.binary.error
      ELSE call.xml.error

\* the text of the NetworkError of a failed request
ErrorText(err) ==
    IF err = "http_503" THEN <<"request failed", "503", "service unavailable">>
    ELSE IF err = "http_404" THEN <<"request failed", "404", "not found">>
    ELSE <<"request failed", "timed out">>

\* the body that the request of event k brought
BodyOf(k) ==
    LET e == log[k] IN
      IF e[2] = "url" THEN call.url
      ELSE IF e[2] = "endpoint" THEN EndpointsOf(call, <<e[4]>>)[e[3]]
      ELSE IF e[2] = "binary" THEN call.binary
      ELSE call.xml

\* a body that only its size speaks for: no %PDF at its start, no PDF type
SizeOnly(b) == ~Failed(b) /\ b.sig # "start" /\ ~b.ctype

\* C22: in the Anna Archive chain, a body accepted only for its size is
\* written to the output path and read back; without the signature in its
\* leading bytes the file is unlinked (and that strategy has failed). This is
\* so for the granted URL and for every download endpoint.
C22_SizeOnlyRevalidated ==
    (call # <<>> /\ call.provider = "anna") =>
        \A k \in 2..Len(log) :
            (log[k] = <<"write", ChainPath>> /\ SizeOnly(BodyOf(k - 1))) =>
                /\ k + 1 <= Len(log)
                /\ log[k + 1] = <<"read", ChainPath>>
                /\ BodyOf(k - 1).sig = "none" =>
                       /\ k + 2 <= Len(log)
                       /\ log[k + 2] = <<"unlink", ChainPath>>

BinaryOk == ~Failed(call.binary) /\ call.binary.ctype /\ call.binary.sig = "start"

XmlOk == ~Failed(call.xml) /\ call.xml.size > 500

Asked(what) == {k \in 1..Len(log) : log[k] = <<"get", what>>}

\* C23: in every attempt through ElsevierDownloader.download_pdf the binary
\* (PDF) request is made first; the XML request is made only after the binary
\* strategy failed, never after it succeeded, and the attempt reports failure
\* only when both strategies failed.
C23_BinaryFirst ==
    (call # <<>> /\ call.provider = "elsevier" /\ outcome.kind = "returned") =>
        /\ Asked("binary") # {}
        /\ \A x \in Asked("xml") : \E b \in Asked("binary") : b < x
        /\ BinaryOk => Asked("xml") = {} /\ outcome.value[1]
        /\ (~BinaryOk) => Asked("xml") # {} /\ (outcome.value[1] <=> XmlOk)
        /\ ~outcome.value[1] => ~BinaryOk /\ ~XmlOk

\* the binary request failed and the XML fallback gave the text
C23_Witness ==
    /\ call # <<>>
    /\ call.provider = "elsevier"
    /\ outcome.kind = "returned"
    /\ outcome.value[1]
    /\ Failed(call.binary)
    /\ log = <<<<"download_pdf", "elsevier">>, <<"wait_if_needed", "elsevier">>,
               <<"get", "binary">>, <<"get", "xml">>,
               <<"write", WithSuffixTxt(ChainPath)>>>>

\* C24: every attempt of a provider chain goes through that provider's
\* RateLimiter: wait_if_needed has been called for the attempt before the
\* chain makes a request.
C24_LimiterBeforeRequests ==
    call # <<>> =>
        \A k \in 1..Len(log) :
            IsGet(k) =>
                \E j \in InvocationOf(k)..k :
                    log[j] = <<"wait_if_needed", call.provider>>

\* C25: a transient error (5xx, timeout, connection failure, 429) raised by a
\* request of a provider chain makes retry_on_failure invoke download_pdf
\* again, up to 3 invocations, before the attempt is reported as failed.
C25_TransientRetried ==
    (/\ call # <<>>
     /\ outcome.kind = "returned"
     /\ ~outcome.value[1]
     /\ \E k \in 1..Len(log) :
           /\ IsGet(k)
           /\ ErrorOf(k) # "none"
           /\ is_retryable_error(ErrorText(ErrorOf(k))))
        => invocations > 1

\* the granted URL gave a body that download_pdf took
UrlAccepted ==
    /\ call.api_key
    /\ call.fast = "url"
    /\ ~Failed(call.url)
    /\ call.url.size >= 1000
    /\ \/ call.url.sig = "start"
       \/ call.url.size > 50000 /\ call.url.sig = "near"

\* the endpoints of the hash that would give a body is_pdf takes
Taking(md5) ==
    {k \in 1..3 : ~Failed(EndpointsOf(call, md5)[k]) /\ is_pdf(EndpointsOf(call, md5)[k])}

\* the endpoint requests made for the hash, in the order of the log
RECURSIVE EndpointsAsked(_, _)
EndpointsAsked(md5, k) ==
    IF k > Len(log) THEN <<>>
    ELSE IF IsGet(k) /\ log[k][2] = "endpoint" /\ log[k][4] = md5[1]
      THEN <<log[k][3]>> \o EndpointsAsked(md5, k + 1)
      ELSE EndpointsAsked(md5, k + 1)

\* the hash that _get_file_md5 gave this call
Resolved == get_file_md5(call).md5

\* C26: the fast download API is asked only when an API key is configured;
\* without a key, or when the API gives no download_url (absent or "null"),
\* or when the body of the granted URL is rejected, the download endpoints of
\* the hash are tried in their order, and the hash-to-bytes stage fails only
\* when all of them fail.
C26_FastThenEndpoints ==
    (call # <<>> /\ call.provider = "anna" /\ outcome.kind = "returned") =>
        /\ Asked("fast_api") # {} => call.api_key
        /\ Asked("url") # {} => call.fast = "url"
        /\ (Resolved # NoMd5 /\ call.doi # "") =>
              IF UrlAccepted
                THEN outcome.value[1] /\ EndpointsAsked(Resolved, 1) = <<>>
              ELSE IF Taking(Resolved) = {}
                THEN EndpointsAsked(Resolved, 1) = <<1, 2, 3>>
                ELSE /\ outcome.value[1]
                     /\ EndpointsAsked(Resolved, 1) =
                            [k \in 1..FirstOf(Taking(Resolved)) |-> k]
        /\ (Resolved # NoMd5 /\ ~outcome.value[1]) =>
              ~UrlAccepted /\ Taking(Resolved) = {}

\* with a key, the API gave "null" for download_url and the second endpoint
\* of the hash gave the file
C26_Witness ==
    /\ call # <<>>
    /\ call.provider = "anna"
    /\ outcome.kind = "returned"
    /\ outcome.value[1]
    /\ call.api_key
    /\ call.fast = "null"
    /\ Asked("fast_api") # {}
    /\ EndpointsAsked(<<PageMd5>>, 1) = <<1, 2>>

\* ---------------------------------------------------------------------
\* the priority score, in hundredths
\* ---------------------------------------------------------------------

ProviderBonus(p) == IF p.journal_type = ELSEVIER THEN 300 ELSE 100

VintageBonus(p) ==
    IF p.journal_type = ELSEVIER
      THEN (IF p.year >= 2018 THEN 100 ELSE 0)
      ELSE (IF p.year <= 2019 THEN 100 ELSE 0)
           + (IF 2010 <= p.year /\ p.year <= 2018 THEN 50 ELSE 0)

\* citation_count / 50, capped at 2.0
CitationBonus(p) ==
    IF p.citation_count >= 100 THEN 200 ELSE p.citation_count * 2

\* C27: for every paper tagged ELSEVIER or NON_ELSEVIER the priority score is
\* relevance_score + provider bonus (3.0 / 1.0) + vintage bonus (1.0 for
\* ELSEVIER from 2018 on; 1.0 for NON_ELSEVIER up to 2019 and 0.5 more for
\* 2010..2018) + min(citation_count / 50, 2.0); the citation bonus is 2.0
\* for every citation_count >= 100.
C27_ScoreFormula ==
    pc = "score_done" =>
        \A i \in DOMAIN papers :
            papers[i].journal_type \in {ELSEVIER, NON_ELSEVIER} =>
                papers[i].priority_score =
                    papers[i].relevance_score + ProviderBonus(papers[i])
                    + VintageBonus(papers[i]) + CitationBonus(papers[i])

\* a NON_ELSEVIER paper of 2017 with over 100 citations has been scored:
\* 1.0 + 1.0 + 0.5 + 2.0 over its relevance
C27_Witness ==
    /\ pc = "score_done"
    /\ papers[1].journal_type = NON_ELSEVIER
    /\ papers[1].year = 2017
    /\ papers[1].citation_count > 100
    /\ papers[1].priority_score = papers[1].relevance_score + 450

C29_FatalIffFatalPattern ==
    outcome.kind = "classified" =>
        LET msg == lower(last_exception)
            fatal == \E pat \in non_retryable_patterns : Contains(msg, pat)
            known == \E pat \in non_retryable_patterns \cup retryable_patterns :
                        Contains(msg, pat)
        IN  /\ outcome.value[1] = ~fatal
            /\ ~known => outcome.value[1]

C29_Witness ==
    /\ outcome.kind = "classified"
    /\ Contains(last_exception, "403")
    /\ Contains(last_exception, "timeout")
    /\ ~outcome.value[1]

\* C30: every attempt that starts after an earlier attempt has ended, in the
\* same phase or as the first attempt of the supplementation phase, starts
\* after the loop's asyncio.sleep(1) that followed the earlier attempt.
C30_SleepBetweenAttempts ==
    [][(pc = "loop" /\ pc' = "single"
        /\ \E i \in DOMAIN attempts : attempts[i] > 0) => slept]_vars

C30_Witness ==
    /\ phase = 2
    /\ pc = "loop"
    /\ cur = 1
    /\ cur <= LoopLimit(queue, target)
    /\ \E i \in DOMAIN attempts : attempts[i] > 0
    /\ slept

\* ensure_target_downloads has returned or raised
Returned_ensure_target_downloads == pc \in {"done", "raised"}

\* the guards of the actions of Next: some step of the call is possible
CanStep ==
    \/ pc = "idle"
    \/ pc = "loop" /\ cur <= LoopLimit(queue, target)
    \/ pc \in {"single", "route", "single_end", "resolve"}
    \/ pc = "phase_end" /\ phase \in {1, 2}

RECURSIVE SumTo(_, _)
SumTo(f, n) == IF n = 0 THEN 0 ELSE f[n] + SumTo(f, n - 1)

\* attempts made so far in the call
TotalAttempts == SumTo(attempts, Len(attempts))

\* steps the call can still take: five for every paper the running loop
\* has not finished, one to leave the phase, and a whole second phase while
\* the first one runs
StepsLeft ==
    LET n == Len(papers)
        after == IF phase = 1 THEN 5 * n + 2 ELSE 1
        ahead == 5 * (LoopLimit(queue, target) - cur)
    IN  CASE pc = "idle"       -> 10 * n + 4
          [] pc = "loop"       -> after + ahead + 5
          [] pc = "single"     -> after + ahead + 4
          [] pc = "route"      -> after + ahead + 3
          [] pc = "single_end" -> after + ahead + 2
          [] pc = "resolve"    -> after + ahead + 1
          [] pc = "phase_end"  -> after
          [] OTHER             -> 0

\* C31: ensure_target_downloads terminates for every pool: until it has
\* returned or raised a next step exists, every step lowers a natural-number
\* measure, the step that ends an attempt leaves the paper Success or Failed,
\* and the attempts of one call never exceed twice the pool size.
C31_Terminates ==
    /\ [](Returned_ensure_target_downloads \/ CanStep)
    /\ [][/\ StepsLeft' < StepsLeft
          /\ StepsLeft' >= 0
          /\ TotalAttempts' <= 2 * Len(papers')
          /\ pc = "resolve" =>
                papers'[queue[cur]].download_status \in {DOWNLOADED, FAILED}]_vars

C31_Witness ==
    /\ pc = "done"
    /\ Len(papers) >= 2
    /\ TotalAttempts = 2 * Len(papers)

\* the required credentials the environment leaves unset or empty
MissingCredentials ==
    {name \in {"MP_API_KEY", "GEMINI_API_KEY", "ELSEVIER_API_KEY"} :
        call[name] \in {Unset, ""}}

\* C32: a missing Materials Project, Gemini or Elsevier key makes the
\* construction of the workflow raise the configuration error, and it is
\* raised there and nowhere else: with a key missing no retrieval attempt is
\* ever started, and once an attempt has started no error has been raised.
C32_ConfigErrorBeforeAttempts ==
    /\ pc \in {"no_workflow", "workflow", "batch"} =>
         ((outcome.kind = "raised" /\ Head(outcome.value) = "ValueError")
            <=> MissingCredentials # {})
    /\ MissingCredentials # {} => log = <<>>
    /\ log # <<>> => outcome.kind = "returned"

C32_Witness ==
    /\ pc = "no_workflow"
    /\ call.ELSEVIER_API_KEY = ""
    /\ call.MP_API_KEY = "k"
    /\ call.GEMINI_API_KEY = "k"
    /\ outcome = [kind |-> "raised", value |-> <<"ValueError", "Elsevier">>]

\* C33: with several callers of wait_if_needed on one RateLimiter, no
\* trailing 60-second window contains more granted calls than the ceiling.
C33_SharedWindowCeiling ==
    MaxCallers >= 2 =>
        \A t \in 0..now :
            Cardinality({j \in 1..Len(granted) :
                           granted[j] <= t /\ t - granted[j] < Window}) <= ceiling

\* C34: papers saved to CSV and loaded back have, paper by paper, the
\* download_status, journal_type, paper_index, pdf_size, is_selected and
\* analysis_completed that were saved.
C34_CsvRoundTrip ==
    pc \in {"csv_loaded", "csv_loaded_with_status"} =>
        /\ Len(papers) = Len(pool0)
        /\ \A i \in DOMAIN pool0 :
             /\ papers[i].download_status = pool0[i].download_status
             /\ papers[i].journal_type = pool0[i].journal_type
             /\ papers[i].paper_index = pool0[i].paper_index
             /\ papers[i].pdf_size = pool0[i].pdf_size
             /\ papers[i].is_selected = pool0[i].is_selected
             /\ papers[i].analysis_completed = pool0[i].analysis_completed

\* C35: at every point of ensure_target_downloads at most target candidates
\* are Success, the downloads gathered by the two phases never exceed the
\* target, so precise selection never truncates, and no candidate is Skipped.
C35_NeverAboveTarget ==
    /\ Cardinality(Succeeded) <= target
    /\ (IF phase = 1 THEN Len(succ) ELSE Len(prio) + Len(succ)) <= target
    /\ \A i \in DOMAIN papers : papers[i].download_status # SKIPPED

\* the call has returned with the target met while more papers of the pool
\* could have been downloaded
C35_Witness ==
    /\ pc = "done"
    /\ Len(result) = target
    /\ Cardinality(Succeeded) = target
    /\ NumRetrievable > target

\* C36: with institutional mode on, an Elsevier-DOI paper whose Elsevier
\* chain returned failure has gone through the Anna Archive chain in the same
\* attempt and is FAILED exactly when that chain failed too; a paper of
\* another DOI has gone through one chain at most.
C36_BackupChain ==
    (inst /\ pc \in {"single_end", "resolve"}) =>
        LET i == queue[cur]
            p == papers[i]
            path == PdfPath(p)
            keyed == ElsevierChain(env[i], NoFiles, path)
            backup == AnnaChain(env[i], NoFiles, path)
        IN  /\ (is_elsevier_doi(p.doi) /\ ~keyed.ok /\ ~keyed.raised) =>
                 /\ invoked = <<"elsevier", "anna">>
                 /\ ok = backup.ok
                 /\ (p.download_status = FAILED) = ~backup.ok
            /\ ~is_elsevier_doi(p.doi) => Len(invoked) <= 1

\* the backup chain has rescued an Elsevier paper
C36_Witness ==
    /\ inst
    /\ pc = "resolve"
    /\ is_elsevier_doi(papers[queue[cur]].doi)
    /\ invoked = <<"elsevier", "anna">>
    /\ ok
    /\ papers[queue[cur]].download_status = DOWNLOADED

\* C37: when ensure_target_downloads has returned no paper of the pool is
\* DOWNLOADING, whatever the providers did, a raise included.
C37_NoneInProgressOnReturn ==
    pc = "done" =>
        \A i \in DOMAIN papers :
            papers[i].download_status \in {PENDING, DOWNLOADED, FAILED, SKIPPED}

\* the call has returned after the Elsevier chain raised for a paper
C37_Witness ==
    /\ pc = "done"
    /\ inst
    /\ \E i \in DOMAIN papers :
         /\ attempts[i] >= 1
         /\ is_elsevier_doi(papers[i].doi)
         /\ ElsevierChain(env[i], NoFiles, PdfPath(papers[i])).raised
         /\ papers[i].download_status = FAILED

\* C38: a provider's download operation that started with nothing at the
\* destination path and reported failure leaves no file there; a file is at
\* the destination only after a reported success.
C38_FailureLeavesNoFile ==
    (call # <<>> /\ outcome.kind = "returned" /\ ~outcome.value[1]) =>
        ~Exists(files, ChainPath)

\* a failed operation that had written the destination and removed it again
C38_Witness ==
    /\ call # <<>>
    /\ outcome.kind = "returned"
    /\ ~outcome.value[1]
    /\ \E k \in 1..Len(log) : log[k] = <<"write", ChainPath>>
    /\ ~Exists(files, ChainPath)

=============================================================================
